---- MODULE Spec2Model ----
(***************************************************************************)
(* A model of the layout optimizer of the block diagram editor             *)
(* (engine.py, optimization.py, conf.py).                                  *)
(*                                                                         *)
(* Coordinates are scene pixels held as integers.  Costs are held in       *)
(* tenths (the wire length weight is 0.1).  Temperatures are held in       *)
(* units of 2^-10.                                                         *)
(***************************************************************************)
EXTENDS Integers, Sequences, FiniteSets, TLC

\* ------------------------------------------------------------------ conf.py
GRID_SIZE == 20
SUPER_BLOCK_MARGIN_X == 120
SUPER_BLOCK_MARGIN_Y == 40
STANDARD_BLOCK_WIDTH == GRID_SIZE * 8
BLOCK_TITLE_TOP_MARGIN == 4
BLOCK_PIN_TOP_PADDING == GRID_SIZE
BLOCK_PIN_BOTTOM_PADDING == GRID_SIZE
BLOCK_PIN_VERTICAL_SPACING == GRID_SIZE
BLOCK_PLACEMENT_SEARCH_MAX_RADIUS == 500 * GRID_SIZE
\* COST_FUNCTION_INTERSECTION_WEIGHT = 100.0 and COST_FUNCTION_WIRELENGTH_WEIGHT
\* = 0.1, both in tenths.
COST_FUNCTION_INTERSECTION_WEIGHT == 1000
COST_FUNCTION_WIRELENGTH_WEIGHT == 1
\* OPTIMIZER_SA_MIN_TEMPERATURE = 1e-9.  Temperatures are whole numbers of
\* units, so a temperature is below 1e-9 exactly when it is below one unit.
OPTIMIZER_SA_MIN_TEMPERATURE == 1

\* Half the side of a DiagramPin's bounding rectangle: the diamond reaches
\* DIAGRAM_PIN_RADIUS * DIAGRAM_PIN_DIAMOND_SCALE = 9 from the centre and the
\* pen (PEN_WIDTH_NORMAL = 2) adds half its width.
DiagramPinHalfSide == 10
\* Height of a block's title text item (a font metric of the platform).
TitleHeight == 24

\* ------------------------------------------------------------------ bounds
\* Iterations of one optimization run.
MaxIter == 2
\* Number of diagram input pins of the crowded layout.
ManyPins == 8
\* Number of abutting blocks of the long row handed to find_safe_placement.
RowBlocks == 62
\* Number of consecutive calls of calculate_diagram_cost on one layout.
MaxEvals == 2
\* Number of edits of one editing session: calls of the host and handlers
\* other than those of a wire drag.
MaxEdits == 1
\* Number of wire drags of one editing session.
MaxDrags == 1
\* Number of edits of one session of editing the items of a scene.
MaxItemEdits == 2
\* Length of the longest list of names passed to set_block_pin_order and
\* to set_diagram_pin_order.
MaxListLen == 3
\* The edits of a session on the crowded scene.
MaxRowEdits == 1

\* ------------------------------------------------------------------ numbers
Abs(v) == IF v < 0 THEN -v ELSE v

Max2(a, b) == IF a >= b THEN a ELSE b

Min2(a, b) == IF a <= b THEN a ELSE b

\* Python's round() of the rational num/den (den > 0): to the nearest integer,
\* a tie going to the even neighbour.
PyRound(num, den) ==
    LET q == num \div den
        r == num % den
    IN  IF 2 * r < den THEN q
        ELSE IF 2 * r > den THEN q + 1
        ELSE IF q % 2 = 0 THEN q ELSE q + 1

\* round(v / GRID_SIZE) * GRID_SIZE for the rational v = num/den.
SnapQ(num, den) == PyRound(num, den * GRID_SIZE) * GRID_SIZE

\* A setPos that takes the position as it is given.
Unsnapped(v) == v

\* The snapping of ItemPositionChange, for a whole number of pixels.
Snap(v) == SnapQ(v, 1)

\* ------------------------------------------------------------------ rectangles
Rect(x, y, w, h) == [x |-> x, y |-> y, w |-> w, h |-> h]

\* QRectF.intersects: touching edges do not intersect.
Intersects(a, b) ==
    /\ a.x < b.x + b.w
    /\ b.x < a.x + a.w
    /\ a.y < b.y + b.h
    /\ b.y < a.y + a.h

\* ------------------------------------------------------------------ the layout
\* The names of the items a scene can hold.  Block b1 has the input pins A, B
\* and the output pin O; b2 has the input pin I and the output pin R; b3 has
\* no pins.
BlockNames == {"b1", "b2", "b3"}

Range(f) == {f[k] : k \in DOMAIN f}

\* The keys of Block.input_pins and Block.output_pins in insertion order.
InputSeq(b) == IF b = "b1" THEN <<"A", "B">> ELSE IF b = "b2" THEN <<"I">> ELSE <<>>

OutputSeq(b) == IF b = "b1" THEN <<"O">> ELSE IF b = "b2" THEN <<"R">> ELSE <<>>

InputNames(b) == Range(InputSeq(b))

OutputNames(b) == Range(OutputSeq(b))

PinSeq(b, t) == IF t = "INPUT" THEN InputSeq(b) ELSE OutputSeq(b)

\* PinType.
INPUT == "INPUT"

OUTPUT == "OUTPUT"

\* MoveType.
MOVE_BLOCK == "MOVE_BLOCK"

REORDER_BLOCK_PINS == "REORDER_BLOCK_PINS"

REORDER_DIAGRAM_PINS == "REORDER_DIAGRAM_PINS"

\* A pin is named by its owner: a block pin by block, direction and name, a
\* diagram pin by its class and name.
BlockPinId(b, t, n) == [owner |-> b, type |-> t, name |-> n]

\* A DiagramInputPin is a logical output, a DiagramOutputPin a logical input.
DiagramPinId(t, n) == [owner |-> "diagram", type |-> t, name |-> n]

VARIABLES
    blocks,         \* block name -> [x, y, locked]: the Blocks of the scene
    pin_index,      \* block pin -> index
    dpins,          \* diagram pin -> [x, y, z]: the DiagramPins of the scene
    wires,          \* set of [start_pin, end_pin, is_locked]
    optimizer_is_running,
    is_shutting_down,
    view_enabled,
    progress_visible,
    progress_value,
    status_message, \* the last message shown in the status bar or a dialog
    window_closed,
    pc,             \* the point the optimize_placement call has reached
    params,         \* the parameters the optimizer function was configured with
    possible_moves,
    i,              \* the loop variable of _run_optimization_loop
    current_cost,
    new_cost,
    revert_func,    \* the revert closure of the trial move applied
    temperature,    \* strategy_state['temperature']
    returned_cost,  \* the value the optimizer function returned
    hist,           \* history of the run, read by the properties only
    fsp,            \* one call of find_safe_placement: inputs and result
    ed              \* the editing state of the scene: names, the pins' wire
                    \* lists, the wire being dragged, the item being created

vars == <<blocks, pin_index, dpins, wires, optimizer_is_running, is_shutting_down,
          view_enabled, progress_visible, progress_value, status_message,
          window_closed, pc, params, possible_moves, i, current_cost, new_cost,
          revert_func, temperature, returned_cost, hist, fsp, ed>>

layout == <<blocks, pin_index, dpins, wires>>

BlockSet(bl) == DOMAIN bl

\* Block._calculate_auto_height.
AutoHeight(b) ==
    LET max_pins == Max2(Cardinality(InputNames(b)), Cardinality(OutputNames(b)))
    IN  IF max_pins = 0 THEN GRID_SIZE * 2
        ELSE BLOCK_PIN_TOP_PADDING + (max_pins - 1) * BLOCK_PIN_VERTICAL_SPACING
             + BLOCK_PIN_BOTTOM_PADDING

\* Block.rect() in scene coordinates; the title and the pin labels of the
\* blocks modelled are narrower than STANDARD_BLOCK_WIDTH.
BlockRect(bl, b) == Rect(bl[b].x, bl[b].y, STANDARD_BLOCK_WIDTH, AutoHeight(b))

\* Block.boundingRect: the rectangle united with the title above it.
United(r, t) == Rect(r.x, r.y - t, r.w, r.h + t)

BlockBoundingRect(bl, b) == United(BlockRect(bl, b), TitleHeight + BLOCK_TITLE_TOP_MARGIN)

\* DiagramPin.sceneBoundingRect.
DiagramPinRect(dp, p) ==
    Rect(dp[p].x - DiagramPinHalfSide, dp[p].y - DiagramPinHalfSide,
         2 * DiagramPinHalfSide, 2 * DiagramPinHalfSide)

\* scene.items() lists the items in descending stacking order: of two
\* diagram pins the one of the higher stacking rank z comes first.
ItemsBefore(dp, q, p) == dp[q].z > dp[p].z

\* The diagram pins of one class (DiagramInputPin: OUTPUT, DiagramOutputPin:
\* INPUT).
PinsOfType(dp, t) == {p \in DOMAIN dp : p.type = t}

\* The place of pin p in sorted(pins, key=lambda p: p.scenePos().y()), pins
\* being taken from scene.items(): the sort is stable.
YRank(dp, p) ==
    Cardinality({q \in PinsOfType(dp, p.type) :
                    \/ dp[q].y < dp[p].y
                    \/ dp[q].y = dp[p].y /\ ItemsBefore(dp, q, p)})

\* The names of the diagram pins of one class from top to bottom.
YOrder(dp, t) ==
    [k \in 1..Cardinality(PinsOfType(dp, t)) |->
        (CHOOSE p \in PinsOfType(dp, t) : YRank(dp, p) = k - 1).name]

MinOf(S) == CHOOSE m \in S : \A v \in S : m <= v

MaxOf(S) == CHOOSE m \in S : \A v \in S : m >= v

\* The union of the rectangles rs.
UnitedAll(rs) ==
    Rect(MinOf({r.x : r \in rs}), MinOf({r.y : r \in rs}),
         MaxOf({r.x + r.w : r \in rs}) - MinOf({r.x : r \in rs}),
         MaxOf({r.y + r.h : r \in rs}) - MinOf({r.y : r \in rs}))

\* BlockDiagramScene.get_blocks_bounding_box.
get_blocks_bounding_box(bl) ==
    IF DOMAIN bl = {} THEN Rect(0, 0, 0, 0)
    ELSE UnitedAll({BlockBoundingRect(bl, b) : b \in DOMAIN bl})

\* QRectF.isEmpty.
IsEmpty(r) == r.w <= 0 \/ r.h <= 0

\* BlockDiagramScene.get_super_block.
Adjusted(bb) ==
    IF ~IsEmpty(bb)
    THEN Rect(bb.x - SUPER_BLOCK_MARGIN_X, bb.y - SUPER_BLOCK_MARGIN_Y,
              bb.w + 2 * SUPER_BLOCK_MARGIN_X, bb.h + 2 * SUPER_BLOCK_MARGIN_Y)
    ELSE bb

get_super_block(bl) == Adjusted(get_blocks_bounding_box(bl))

\* BlockDiagramScene.realign_diagram_pins: every diagram pin goes to the slot
\* of its place in the top-to-bottom order, on the left edge of the super
\* block (DiagramInputPin) or on the right edge (DiagramOutputPin); setPos
\* snaps the slot to the grid.
AlignedTo(super_block, dp) ==
    IF IsEmpty(super_block) THEN dp
    ELSE [p \in DOMAIN dp |->
            [x |-> Snap(IF p.type = OUTPUT THEN super_block.x
                        ELSE super_block.x + super_block.w),
             y |-> SnapQ(super_block.y * (Cardinality(PinsOfType(dp, p.type)) + 1)
                         + (YRank(dp, p) + 1) * super_block.h,
                         Cardinality(PinsOfType(dp, p.type)) + 1),
             z |-> dp[p].z]]

realign_diagram_pins(bl, dp) == AlignedTo(get_super_block(bl), dp)

\* BlockPin.update_position with the clamping of BlockPin.itemChange, in
\* scene coordinates.
BlockPinPos(bl, idx, p) ==
    LET b == p.owner
        y == BLOCK_PIN_TOP_PADDING + idx[p] * BLOCK_PIN_VERTICAL_SPACING
    IN  [x |-> bl[b].x + (IF p.type = INPUT THEN 0 ELSE STANDARD_BLOCK_WIDTH),
         y |-> bl[b].y + Max2(0, Min2(y, AutoHeight(b)))]

\* PinMixin.scenePos.
scenePos(bl, idx, dp, p) ==
    IF p.owner = "diagram" THEN [x |-> dp[p].x, y |-> dp[p].y]
    ELSE BlockPinPos(bl, idx, p)

\* ------------------------------------------------------------------ cost
\* The routed curve of a wire runs from the scene position of its start pin
\* to that of its end pin (RoutingManager.calculate_path).  Qt measures and
\* intersects the Bezier curve; the model measures and intersects its chord.
Sgn(v) == IF v > 0 THEN 1 ELSE IF v < 0 THEN -1 ELSE 0

\* The side of the line a -> b the point c lies on.
Side(a, b, c) == Sgn((b.x - a.x) * (c.y - a.y) - (b.y - a.y) * (c.x - a.x))

\* QPainterPath.length of a wire's path.
PathLength(s, e) == Abs(e.x - s.x) + Abs(e.y - s.y)

\* The point c lies on the path from a to b, its ends included.
OnPath(a, b, c) ==
    /\ Side(a, b, c) = 0
    /\ Min2(a.x, b.x) <= c.x
    /\ c.x <= Max2(a.x, b.x)
    /\ Min2(a.y, b.y) <= c.y
    /\ c.y <= Max2(a.y, b.y)

\* QPainterPath.intersects(QPainterPath) of two wires' paths: the paths
\* cross, or one touches the other, as two wires leaving one pin do.
PathsIntersect(s1, e1, s2, e2) ==
    IF Side(s1, e1, s2) * Side(s1, e1, e2) < 0 /\ Side(s2, e2, s1) * Side(s2, e2, e1) < 0
    THEN TRUE
    ELSE \/ OnPath(s1, e1, s2)
         \/ OnPath(s1, e1, e2)
         \/ OnPath(s2, e2, s1)
         \/ OnPath(s2, e2, e1)

\* QPainterPath.intersects(QRectF) of a wire's path and a block's rectangle.
PathIntersectsRect(s, e, r) ==
    LET box == Rect(Min2(s.x, e.x), Min2(s.y, e.y), Abs(e.x - s.x), Abs(e.y - s.y))
        corners == {[x |-> r.x, y |-> r.y], [x |-> r.x + r.w, y |-> r.y],
                    [x |-> r.x, y |-> r.y + r.h], [x |-> r.x + r.w, y |-> r.y + r.h]}
        sides == {Side(s, e, c) : c \in corners}
    IN  /\ box.x <= r.x + r.w
        /\ r.x <= box.x + box.w
        /\ box.y <= r.y + r.h
        /\ r.y <= box.y + box.h
        /\ ~(sides = {1} \/ sides = {-1})

\* An intersection score that also counts the wires sharing a pin.
calculate_intersection_score_sharing_too(bl, idx, dp, ws) ==
    LET S(w) == scenePos(bl, idx, dp, w.start_pin)
        E(w) == scenePos(bl, idx, dp, w.end_pin)
        pairs == {pr \in SUBSET ws :
                    /\ Cardinality(pr) = 2
                    /\ \A w1, w2 \in pr :
                          w1 # w2 => PathsIntersect(S(w1), E(w1), S(w2), E(w2))}
        connected_blocks(w) == {p.owner : p \in {w.start_pin, w.end_pin}} \ {"diagram"}
        hits == {wb \in ws \X DOMAIN bl :
                    /\ wb[2] \notin connected_blocks(wb[1])
                    /\ PathIntersectsRect(S(wb[1]), E(wb[1]), BlockBoundingRect(bl, wb[2]))}
    IN  Cardinality(pairs) + Cardinality(hits)

\* MainWindow._calculate_intersection_score with
\* USE_DETAILED_INTERSECTION_CHECK = False.
calculate_intersection_score(bl, idx, dp, ws) ==
    LET S(w) == scenePos(bl, idx, dp, w.start_pin)
        E(w) == scenePos(bl, idx, dp, w.end_pin)
        pairs == {pr \in SUBSET ws :
                    /\ Cardinality(pr) = 2
                    /\ \A w1, w2 \in pr :
                          w1 # w2 =>
                            /\ {w1.start_pin, w1.end_pin} \cap {w2.start_pin, w2.end_pin} = {}
                            /\ PathsIntersect(S(w1), E(w1), S(w2), E(w2))}
        connected_blocks(w) == {p.owner : p \in {w.start_pin, w.end_pin}} \ {"diagram"}
        hits == {wb \in ws \X DOMAIN bl :
                    /\ wb[2] \notin connected_blocks(wb[1])
                    /\ PathIntersectsRect(S(wb[1]), E(wb[1]), BlockBoundingRect(bl, wb[2]))}
    IN  Cardinality(pairs) + Cardinality(hits)

RECURSIVE SumLengths(_, _, _, _)
\* MainWindow._calculate_total_wire_length.
SumLengths(bl, idx, dp, ws) ==
    IF ws = {} THEN 0
    ELSE LET w == CHOOSE v \in ws : TRUE
         IN  PathLength(scenePos(bl, idx, dp, w.start_pin),
                        scenePos(bl, idx, dp, w.end_pin))
             + SumLengths(bl, idx, dp, ws \ {w})

\* MainWindow.calculate_diagram_cost, in tenths.
calculate_diagram_cost(bl, idx, dp, ws) ==
    calculate_intersection_score(bl, idx, dp, ws) * COST_FUNCTION_INTERSECTION_WEIGHT
    + SumLengths(bl, idx, dp, ws) * COST_FUNCTION_WIRELENGTH_WEIGHT

\* ------------------------------------------------------------------ operations
Layout(bl, idx, dp, ws) == [blocks |-> bl, pin_index |-> idx, dpins |-> dp, wires |-> ws]

NoItems == [k \in {} |-> k]

\* The sceneBoundingRect of every Block and DiagramPin of the scene other
\* than the item ignore (a block name, or "none").
SceneRects(bl, dp, ignore) ==
    {BlockBoundingRect(bl, b) : b \in DOMAIN bl \ {ignore}}
    \cup {DiagramPinRect(dp, p) : p \in DOMAIN dp}

\* _is_rect_overlapping, the scene being given by the rectangles of its
\* Blocks and DiagramPins other than item_to_ignore.
is_rect_overlapping(rects, rect) == \E r \in rects : Intersects(rect, r)

Placed(bl, b, x, y) == [bl EXCEPT ![b].x = x, ![b].y = y]

\* QGraphicsItem.setPos on a Block in the scene: itemChange snaps the position
\* (SelectableMovableItemMixin); a position that is the current one changes
\* nothing; otherwise Block.itemChange realigns the diagram pins.
BlockSetPos(L, b, x, y) ==
    IF Snap(x) = L.blocks[b].x /\ Snap(y) = L.blocks[b].y THEN L
    ELSE [L EXCEPT !.blocks = Placed(@, b, Snap(x), Snap(y)),
                   !.dpins = realign_diagram_pins(Placed(L.blocks, b, Snap(x), Snap(y)), @)]

\* MainWindow.move_block.
move_block(L, block_name, x, y) ==
    IF block_name \in DOMAIN L.blocks THEN BlockSetPos(L, block_name, x, y) ELSE L

\* The index enumerate() leaves with a name: that of its last occurrence.
LastIndexOf(names, n) ==
    MaxOf({k \in DOMAIN names : names[k] = n}) - 1

\* The keys of Block.input_pins or Block.output_pins: the names of the pins
\* the block has on the side pin_type.
PinKeys(idx, b, pin_type) ==
    {p.name : p \in {q \in DOMAIN idx : q.owner = b /\ q.type = pin_type}}

\* set_block_pin_order numbering the pins from 1.
set_block_pin_order_from_one(L, block_name, pin_type, ordered_pin_names) ==
    IF block_name \notin DOMAIN L.blocks THEN L
    ELSE IF Range(ordered_pin_names) # PinKeys(L.pin_index, block_name, pin_type) THEN L
    ELSE [L EXCEPT !.pin_index =
            [p \in DOMAIN @ |->
                IF p.owner = block_name /\ p.type = pin_type
                THEN LastIndexOf(ordered_pin_names, p.name) + 1
                ELSE @[p]]]

\* MainWindow.set_block_pin_order.
set_block_pin_order(L, block_name, pin_type, ordered_pin_names) ==
    IF block_name \notin DOMAIN L.blocks THEN L
    ELSE IF Range(ordered_pin_names) # PinKeys(L.pin_index, block_name, pin_type) THEN L
    ELSE [L EXCEPT !.pin_index =
            [p \in DOMAIN @ |->
                IF p.owner = block_name /\ p.type = pin_type
                THEN LastIndexOf(ordered_pin_names, p.name)
                ELSE @[p]]]

\* The setPos loop of set_diagram_pin_order: each pin is set to (its x, its
\* place in the list), which itemChange snaps to the grid.
PlacedInOrder(dp, pin_type, ordered_pin_names) ==
    [p \in DOMAIN dp |->
        IF p.type = pin_type
        THEN [x |-> Snap(dp[p].x),
              y |-> Snap(LastIndexOf(ordered_pin_names, p.name)),
              z |-> dp[p].z]
        ELSE dp[p]]

\* MainWindow.set_diagram_pin_order.
set_diagram_pin_order(L, pin_type, ordered_pin_names) ==
    IF Range(ordered_pin_names) # {p.name : p \in PinsOfType(L.dpins, pin_type)} THEN L
    ELSE [L EXCEPT !.dpins =
            realign_diagram_pins(L.blocks, PlacedInOrder(@, pin_type, ordered_pin_names))]

\* sorted(pins_dict.keys(), key=lambda k: pins_dict[k].index).
IndexOrder(idx, b, t) ==
    LET names == PinSeq(b, t)
        place(k) == Cardinality({j \in DOMAIN names :
                        \/ idx[BlockPinId(b, t, names[j])] < idx[BlockPinId(b, t, names[k])]
                        \/ /\ idx[BlockPinId(b, t, names[j])] = idx[BlockPinId(b, t, names[k])]
                           /\ j < k})
    IN  [r \in DOMAIN names |-> names[CHOOSE k \in DOMAIN names : place(k) = r - 1]]

\* The outcomes of random.shuffle on a list.
Shuffles(order) ==
    {[k \in DOMAIN order |-> order[f[k]]] : f \in Permutations(DOMAIN order)}

\* ------------------------------------------------------------------ placement
Pt(x, y) == [x |-> x, y |-> y]

\* The rectangle of an item of the given size at pos, pos being its centre
\* or its top-left corner (the sizes modelled are even).
PlacedRect(pos, item_width, item_height, is_centered) ==
    IF is_centered
    THEN Rect(pos.x - item_width \div 2, pos.y - item_height \div 2, item_width, item_height)
    ELSE Rect(pos.x, pos.y, item_width, item_height)

\* start_pos of find_safe_placement: the hint, or the top-left corner of
\* the item centred on the hint, snapped to the grid.
StartPos(item_width, item_height, search_center_hint, is_centered) ==
    IF is_centered
    THEN Pt(Snap(search_center_hint.x), Snap(search_center_hint.y))
    ELSE Pt(SnapQ(2 * search_center_hint.x - item_width, 2),
            SnapQ(2 * search_center_hint.y - item_height, 2))

\* The loop condition of the search of find_safe_placement.
WithinRadius(x, y) ==
    x * x + y * y < BLOCK_PLACEMENT_SEARCH_MAX_RADIUS * BLOCK_PLACEMENT_SEARCH_MAX_RADIUS

\* The corner test of the search: the direction turns at the offset (x, y).
AtCorner(x, y) == x = y \/ (x < 0 /\ x = -y) \/ (x > 0 /\ x = 1 - y)

\* ------------------------------------------------------------------ moves
Move(type, block, pin_type) == [type |-> type, block |-> block, pin_type |-> pin_type]

\* A revert closure: the call it makes when invoked.
Closure(type, block, pin_type, x, y, order) ==
    [type |-> type, block |-> block, pin_type |-> pin_type, x |-> x, y |-> y,
     order |-> order]

NoClosure == Closure("none", "none", "none", 0, 0, <<>>)

\* PinMixin.is_locked: a pin is locked when any of its wires is.
is_locked(ws, p) == \E w \in ws : w.is_locked /\ p \in {w.start_pin, w.end_pin}

\* The list of possible moves with a MOVE_BLOCK for every block, locked or
\* not.
BuildMovesLockedToo(bl, dp, ws) ==
    {Move(MOVE_BLOCK, b, "none") : b \in DOMAIN bl}
    \cup {Move(REORDER_BLOCK_PINS, m[1], m[2]) :
            m \in {bt \in (DOMAIN bl) \X {INPUT, OUTPUT} :
                /\ Len(PinSeq(bt[1], bt[2])) > 1
                /\ ~\E n \in Range(PinSeq(bt[1], bt[2])) :
                        is_locked(ws, BlockPinId(bt[1], bt[2], n))}}
    \cup {Move(REORDER_DIAGRAM_PINS, "diagram", t) :
            t \in {u \in {OUTPUT, INPUT} :
                /\ Cardinality(PinsOfType(dp, u)) > 1
                /\ ~\E p \in PinsOfType(dp, u) : is_locked(ws, p)}}

\* The list of possible moves _run_optimizer_logic builds.
BuildMoves(bl, dp, ws) ==
    {Move(MOVE_BLOCK, b, "none") : b \in {c \in DOMAIN bl : ~bl[c].locked}}
    \cup {Move(REORDER_BLOCK_PINS, m[1], m[2]) :
            m \in {bt \in (DOMAIN bl) \X {INPUT, OUTPUT} :
                /\ Len(PinSeq(bt[1], bt[2])) > 1
                /\ ~\E n \in Range(PinSeq(bt[1], bt[2])) :
                        is_locked(ws, BlockPinId(bt[1], bt[2], n))}}
    \cup {Move(REORDER_DIAGRAM_PINS, "diagram", t) :
            t \in {u \in {OUTPUT, INPUT} :
                /\ Cardinality(PinsOfType(dp, u)) > 1
                /\ ~\E p \in PinsOfType(dp, u) : is_locked(ws, p)}}

\* The values random.uniform(-move_step, move_step) is drawn from.
Draws(move_step) ==
    {-move_step, -(move_step \div 2), 0, move_step \div 2 + 1, move_step}

\* The random choices one trial of a move can make: the two offsets of a
\* MOVE_BLOCK, the shuffled order of a reorder.
Choices(L, move, move_step) ==
    IF move.type = MOVE_BLOCK
    THEN {[ox |-> a, oy |-> b, order |-> <<>>] : a, b \in Draws(move_step)}
    ELSE IF move.type = REORDER_BLOCK_PINS
    THEN {[ox |-> 0, oy |-> 0, order |-> o] :
            o \in Shuffles(IndexOrder(L.pin_index, move.block, move.pin_type))}
    ELSE {[ox |-> 0, oy |-> 0, order |-> o] : o \in Shuffles(YOrder(L.dpins, move.pin_type))}

\* The result of _apply_and_evaluate_move: None (not valid), or the cost and
\* the revert closure; with it the layout the call leaves and whether the
\* call evaluated the cost.
Result(valid, evaluated, L, revert) ==
    [valid |-> valid, evaluated |-> evaluated, layout |-> L, revert |-> revert]

\* The MOVE_BLOCK branch moving the block before it tests the overlap.
MoveBlockAtMoveFirst(L, block, original_pos, snapped_pos) ==
    IF L.blocks[block].locked THEN Result(FALSE, FALSE, L, NoClosure)
    ELSE IF is_rect_overlapping(SceneRects(L.blocks, L.dpins, block),
                                Rect(snapped_pos.x, snapped_pos.y,
                                     STANDARD_BLOCK_WIDTH, AutoHeight(block)))
    THEN Result(FALSE, FALSE, move_block(L, block, snapped_pos.x, snapped_pos.y), NoClosure)
    ELSE Result(TRUE, TRUE, move_block(L, block, snapped_pos.x, snapped_pos.y),
                Closure(MOVE_BLOCK, block, "none", original_pos.x, original_pos.y, <<>>))

\* The MOVE_BLOCK branch of _apply_and_evaluate_move; original_pos is the
\* block's position and snapped_pos the snapped random position.
MoveBlockAt(L, block, original_pos, snapped_pos) ==
    IF L.blocks[block].locked THEN Result(FALSE, FALSE, L, NoClosure)
    ELSE IF is_rect_overlapping(SceneRects(L.blocks, L.dpins, block),
                                Rect(snapped_pos.x, snapped_pos.y,
                                     STANDARD_BLOCK_WIDTH, AutoHeight(block)))
    THEN Result(FALSE, FALSE, L, NoClosure)
    ELSE Result(TRUE, TRUE, move_block(L, block, snapped_pos.x, snapped_pos.y),
                Closure(MOVE_BLOCK, block, "none", original_pos.x, original_pos.y, <<>>))

apply_move_block(L, move, choice) ==
    MoveBlockAt(L, move.block,
                [x |-> L.blocks[move.block].x, y |-> L.blocks[move.block].y],
                [x |-> Snap(L.blocks[move.block].x + choice.ox),
                 y |-> Snap(L.blocks[move.block].y + choice.oy)])

\* The REORDER_BLOCK_PINS branch of _apply_and_evaluate_move.
apply_reorder_block_pins(L, move, choice) ==
    Result(TRUE, TRUE,
           set_block_pin_order(L, move.block, move.pin_type, choice.order),
           Closure(REORDER_BLOCK_PINS, move.block, move.pin_type, 0, 0,
                   IndexOrder(L.pin_index, move.block, move.pin_type)))

\* The REORDER_DIAGRAM_PINS branch of _apply_and_evaluate_move.
apply_reorder_diagram_pins(L, move, choice) ==
    Result(TRUE, TRUE,
           set_diagram_pin_order(L, move.pin_type, choice.order),
           Closure(REORDER_DIAGRAM_PINS, "diagram", move.pin_type, 0, 0,
                   YOrder(L.dpins, move.pin_type)))

\* _apply_and_evaluate_move.
apply_and_evaluate_move(L, move, choice) ==
    IF move.type = MOVE_BLOCK THEN apply_move_block(L, move, choice)
    ELSE IF move.type = REORDER_BLOCK_PINS THEN apply_reorder_block_pins(L, move, choice)
    ELSE apply_reorder_diagram_pins(L, move, choice)

\* The call a revert closure makes: the layout it leaves.
Revert(L, f) ==
    IF f.type = MOVE_BLOCK THEN move_block(L, f.block, f.x, f.y)
    ELSE IF f.type = REORDER_BLOCK_PINS
    THEN set_block_pin_order(L, f.block, f.pin_type, f.order)
    ELSE set_diagram_pin_order(L, f.pin_type, f.order)

\* A hill-climbing strategy that also accepts a move of equal cost.
hill_climbing_strategy_or_equal(cur, new) == new <= cur

\* _hill_climbing_strategy.
hill_climbing_strategy(cur, new) == new < cur

\* math.exp(-delta / temperature) is 0.0 when delta / temperature exceeds
\* 745.1 (delta in tenths, temperature in units of 2^-10).
ExpUnderflows(delta, temp) == delta * 1024 > 7451 * temp

\* An annealing strategy without the test of the frozen temperature.
simulated_annealing_strategy_never_frozen(cur, new, temp, u) ==
    IF new - cur < 0 THEN TRUE
    ELSE IF new - cur = 0 THEN TRUE
    ELSE IF ExpUnderflows(new - cur, temp) THEN FALSE
    ELSE u

\* _simulated_annealing_strategy; u is the outcome of random.random() <
\* acceptance_prob where the probability lies strictly between 0 and 1.
simulated_annealing_strategy(cur, new, temp, u) ==
    IF new - cur < 0 THEN TRUE
    ELSE IF temp < OPTIMIZER_SA_MIN_TEMPERATURE THEN FALSE
    ELSE IF new - cur = 0 THEN TRUE
    ELSE IF ExpUnderflows(new - cur, temp) THEN FALSE
    ELSE u

\* strategy_func of the run.
strategy_func(strategy, cur, new, temp, u) ==
    IF strategy = "hc" THEN hill_climbing_strategy(cur, new)
    ELSE simulated_annealing_strategy(cur, new, temp, u)

\* A hook that leaves the temperature as it is.
sa_post_hook_idle(temp, rate) == temp

\* sa_post_hook: the temperature after one cooling.
sa_post_hook(temp, rate) == (temp * rate.num) \div rate.den

\* MainWindow.calculate_diagram_cost of the layout L.
CostOf(L) == calculate_diagram_cost(L.blocks, L.pin_index, L.dpins, L.wires)

\* ------------------------------------------------------------------ initial layouts
Block(x, y, locked) == [x |-> x, y |-> y, locked |-> locked]

Wire(s, e, l) == [start_pin |-> s, end_pin |-> e, is_locked |-> l]

PlaceIn(seq, n) == CHOOSE k \in DOMAIN seq : seq[k] = n

\* The block pins of the blocks bl, indexed in the order they were added
\* (Block.add_input_pin, Block.add_output_pin), the input pins of b1 in the
\* order b1_inputs (set_block_pin_order).
BlockPins(bl, b1_inputs) ==
    LET ids == UNION {{BlockPinId(b, t, n) : n \in Range(PinSeq(b, t))} :
                        b \in DOMAIN bl, t \in {INPUT, OUTPUT}}
    IN  [p \in ids |->
            IF p.owner = "b1" /\ p.type = INPUT THEN PlaceIn(b1_inputs, p.name) - 1
            ELSE PlaceIn(PinSeq(p.owner, p.type), p.name) - 1]

\* Diagram pins created in the orders created_in and created_out
\* (create_diagram_input, create_diagram_output), dragged into the
\* top-to-bottom orders ttb_in and ttb_out and realigned on release
\* (DiagramPin.mouseReleaseEvent).
DiagramPins(bl, created_in, ttb_in, created_out, ttb_out) ==
    LET ids == {DiagramPinId(OUTPUT, n) : n \in Range(created_in)}
               \cup {DiagramPinId(INPUT, n) : n \in Range(created_out)}
        dragged == [p \in ids |->
                      IF p.type = OUTPUT
                      THEN [x |-> 0, y |-> 100 * PlaceIn(ttb_in, p.name),
                            z |-> PlaceIn(created_in, p.name)]
                      ELSE [x |-> 400, y |-> 100 * PlaceIn(ttb_out, p.name),
                            z |-> PlaceIn(created_out, p.name)]]
    IN  realign_diagram_pins(bl, dragged)

\* Scenes without blocks.
EmptyLayouts ==
    {Layout(NoItems, NoItems, NoItems, {}),
     Layout(NoItems, NoItems, DiagramPins(NoItems, <<"X", "Y">>, <<"X", "Y">>, <<>>, <<>>), {})}

\* One block without pins.
SingleBlockLayouts ==
    {Layout([b \in {"b3"} |-> Block(0, 0, l)], NoItems, NoItems, {}) : l \in BOOLEAN}

\* Two blocks, the diagram inputs X, Y and the diagram outputs Z, W, wired
\* X -> b1.A, Y -> b1.B, b1.O -> b2.I, b1.O -> W, b2.R -> Z.
TwoBlockLayout(b1_locked, ttb_in, wire_locked, b1_inputs) ==
    LET bl == [b \in {"b1", "b2"} |->
                  IF b = "b1" THEN Block(0, 0, b1_locked) ELSE Block(160, 20, FALSE)]
    IN  Layout(bl, BlockPins(bl, b1_inputs),
               DiagramPins(bl, <<"X", "Y">>, ttb_in, <<"Z", "W">>, <<"Z", "W">>),
               {Wire(DiagramPinId(OUTPUT, "X"), BlockPinId("b1", INPUT, "A"), wire_locked),
                Wire(DiagramPinId(OUTPUT, "Y"), BlockPinId("b1", INPUT, "B"), FALSE),
                Wire(BlockPinId("b1", OUTPUT, "O"), BlockPinId("b2", INPUT, "I"), FALSE),
                Wire(BlockPinId("b1", OUTPUT, "O"), DiagramPinId(INPUT, "W"), FALSE),
                Wire(BlockPinId("b2", OUTPUT, "R"), DiagramPinId(INPUT, "Z"), FALSE)})

TwoBlockLayouts ==
    {TwoBlockLayout(TRUE, <<"X", "Y">>, FALSE, <<"A", "B">>),
     TwoBlockLayout(TRUE, <<"Y", "X">>, FALSE, <<"B", "A">>),
     TwoBlockLayout(FALSE, <<"X", "Y">>, TRUE, <<"A", "B">>)}

ManyNames == [k \in 1..ManyPins |-> "X" \o ToString(k)]

\* Two blocks and ManyPins diagram inputs, top to bottom in the order they
\* were created; the wire of the first is locked.
CrowdedLayout ==
    LET bl == [b \in {"b1", "b2"} |->
                  IF b = "b1" THEN Block(0, 0, TRUE) ELSE Block(180, 40, FALSE)]
    IN  Layout(bl, BlockPins(bl, <<"A", "B">>),
               DiagramPins(bl, ManyNames, ManyNames, <<>>, <<>>),
               {Wire(DiagramPinId(OUTPUT, ManyNames[1]), BlockPinId("b1", INPUT, "A"), TRUE),
                Wire(DiagramPinId(OUTPUT, ManyNames[2]), BlockPinId("b1", INPUT, "B"), FALSE),
                Wire(BlockPinId("b1", OUTPUT, "O"), BlockPinId("b2", INPUT, "I"), FALSE)})

InitialLayouts == EmptyLayouts \cup SingleBlockLayouts \cup TwoBlockLayouts \cup {CrowdedLayout}

\* The parameters the optimizer function is configured with
\* (run_randomized_hill_climbing, run_simulated_annealing); initial_temp is
\* 0 or 16.0, cooling_rate 1/2.
Params(strategy, reporting_interval, initial_temp) ==
    [strategy |-> strategy, iterations |-> MaxIter, move_step_grid_units |-> 1,
     reporting_interval |-> reporting_interval, initial_temp |-> initial_temp,
     cooling_rate |-> [num |-> 1, den |-> 2]]

ParamSets ==
    {Params("hc", r, 0) : r \in {0, 1, 2}} \cup {Params("sa", 1, t) : t \in {0, 16384}}

NoMove == Move("none", "none", "none")

FspCall(pc_, rects, size, hint, is_centered) ==
    [pc |-> pc_, rects |-> rects, item_width |-> size.w, item_height |-> size.h,
     hint |-> hint, is_centered |-> is_centered, start_pos |-> Pt(0, 0),
     x |-> 0, y |-> 0, dx |-> 0, dy |-> 0, result |-> Pt(0, 0)]

FspIdle == FspCall("none", {}, [w |-> 0, h |-> 0], Pt(0, 0), FALSE)

\* No pin: None where the code holds a pin.
NoPin == [owner |-> "none", type |-> "none", name |-> "none"]

\* The wires a pin of the layout L lists as its own (Pin.wires), each wire
\* having been entered by Wire.__init__ in the lists of its two pins.
WiresOf(L, p) == {w \in L.wires : w.start_pin = p \/ w.end_pin = p}

\* The editing state of a scene built by the host into the layout L: every
\* item carries the name it was created with, no wire is being dragged and
\* nothing was deleted.  No editing is to follow.
Editing(L) ==
    [block_name |-> [b \in DOMAIN L.blocks |-> b],
     pin_name |-> [p \in DOMAIN L.dpins |-> p.name],
     pin_wires |-> [p \in DOMAIN L.pin_index \cup DOMAIN L.dpins |-> WiresOf(L, p)],
     deleted_blocks |-> {},
     temp_wire |-> FALSE, start_pin_for_wire |-> NoPin, hovered_pin |-> NoPin,
     edits_left |-> 0, drags_left |-> 0, op |-> "none", ok |-> TRUE, why |-> "none",
     args |-> [pin_type |-> "none", names |-> <<>>]]

\* The window after MainWindow.__init__, showing the layout L.
Window(L, pr) ==
    /\ blocks = L.blocks
    /\ pin_index = L.pin_index
    /\ dpins = L.dpins
    /\ wires = L.wires
    /\ optimizer_is_running = FALSE
    /\ is_shutting_down = FALSE
    /\ view_enabled = TRUE
    /\ progress_visible = FALSE
    /\ progress_value = 0
    /\ status_message = "none"
    /\ window_closed = FALSE
    /\ pc = "idle"
    /\ params = pr
    /\ possible_moves = {}
    /\ i = 0
    /\ current_cost = 0
    /\ new_cost = 0
    /\ revert_func = NoClosure
    /\ temperature = 0
    /\ returned_cost = 0
    /\ hist = [before |-> L, applied |-> L, move |-> NoMove, outcome |-> "none",
               evaluated |-> FALSE, consulted |-> FALSE, prev_cost |-> 0,
               initial_cost |-> 0, best_cost |-> 0, exit |-> "none",
               invoked |-> FALSE, polls |-> 0, chosen_while_shutting |-> 0,
               completed_after_close |-> 0, evaluations |-> 0,
               intersection_score |-> 0, prev_total |-> 0, yielded_at |-> 0,
               valid |-> 0]

Init ==
    \E L \in InitialLayouts, pr \in ParamSets :
        /\ Window(L, pr)
        /\ fsp = FspIdle
        /\ ed = Editing(L)

\* ------------------------------------------------------------------ the run
CurrentLayout == Layout(blocks, pin_index, dpins, wires)

\* The layout of the scene becomes L.
SetLayout(L) ==
    /\ blocks' = L.blocks
    /\ pin_index' = L.pin_index
    /\ dpins' = L.dpins
    /\ wires' = L.wires

\* optimize_placement without the resets of its finally clause.
FinallyWithoutReset ==
    /\ window_closed' = is_shutting_down
    /\ UNCHANGED <<optimizer_is_running, progress_visible, view_enabled>>

\* The finally clause of optimize_placement: the state is reset and, if a
\* shutdown was requested, close() is called, whose closeEvent is accepted.
Finally ==
    /\ optimizer_is_running' = FALSE
    /\ progress_visible' = FALSE
    /\ view_enabled' = TRUE
    /\ window_closed' = is_shutting_down

\* _run_optimizer_logic returns with a message, the optimizer function not
\* called.
NothingToOptimize(message, how) ==
    /\ status_message' = message
    /\ Finally
    /\ pc' = "done"
    /\ hist' = [hist EXCEPT !.exit = how]
    /\ UNCHANGED <<possible_moves, progress_value, current_cost, temperature>>

\* The optimizer function is called with the moves and reaches the loop of
\* _run_optimization_loop, cost being the initial cost.
StartLoop(moves, cost) ==
    /\ optimizer_is_running' = TRUE
    /\ view_enabled' = FALSE
    /\ possible_moves' = moves
    /\ progress_visible' = TRUE
    /\ progress_value' = 0
    /\ current_cost' = cost
    /\ temperature' = IF params.strategy = "sa" THEN params.initial_temp ELSE temperature
    /\ pc' = "loop"
    /\ hist' = [hist EXCEPT !.invoked = TRUE, !.initial_cost = cost,
                            !.best_cost = cost, !.prev_cost = cost]
    /\ UNCHANGED <<status_message, window_closed>>

\* MainWindow.optimize_placement up to the first iteration of the loop of
\* the optimizer function, or up to its return when there is nothing to
\* optimize.
optimize_placement ==
    /\ pc = "idle"
    /\ ~window_closed
    /\ IF DOMAIN blocks = {}
       THEN NothingToOptimize("OPTIMIZER_NO_BLOCKS", "no_blocks")
       ELSE IF BuildMoves(blocks, dpins, wires) = {}
       THEN NothingToOptimize("OPTIMIZER_NO_MOVES", "no_moves")
       ELSE StartLoop(BuildMoves(blocks, dpins, wires), CostOf(CurrentLayout))
    /\ UNCHANGED <<layout, is_shutting_down, params, i, new_cost, revert_func,
                   returned_cost, fsp, ed>>

\* A loop head that does not look at the shutdown flag.
LoopHeadWithoutPoll == IF i >= params.iterations THEN "exhausted" ELSE "trial"

\* The head of the for loop of _run_optimization_loop: the range is
\* exhausted, or the shutdown flag is seen, or a trial is made.
LoopHead ==
    IF i >= params.iterations THEN "exhausted"
    ELSE IF is_shutting_down THEN "cancelled"
    ELSE "trial"

\* A loop returning the cost it started from.
LoopResultInitial == hist.initial_cost

\* The value _run_optimization_loop returns.
LoopResult == current_cost

\* The loop is left and optimize_placement returns.
ReturnFromLoop(how) ==
    /\ returned_cost' = LoopResult
    /\ status_message' = IF ~is_shutting_down THEN "OPTIMIZER_COMPLETE" ELSE status_message
    /\ Finally
    /\ pc' = "done"
    /\ hist' = [hist EXCEPT !.exit = how,
                            !.polls = IF how = "cancelled" THEN @ + 1 ELSE @]
    /\ UNCHANGED <<layout, is_shutting_down, params, possible_moves, i, current_cost,
                   new_cost, revert_func, temperature, progress_value, fsp, ed>>

LoopExhausted ==
    /\ pc = "loop"
    /\ LoopHead = "exhausted"
    /\ ReturnFromLoop("exhausted")

LoopCancelled ==
    /\ pc = "loop"
    /\ LoopHead = "cancelled"
    /\ ReturnFromLoop("cancelled")

\* The loop body from the result r of _apply_and_evaluate_move on: None
\* ends the iteration.
Tried(move, r) ==
    /\ SetLayout(r.layout)
    /\ new_cost' = IF r.evaluated THEN CostOf(r.layout) ELSE new_cost
    /\ revert_func' = IF r.valid THEN r.revert ELSE revert_func
    /\ pc' = IF r.valid THEN "decide" ELSE "loop"
    /\ i' = IF r.valid THEN i ELSE i + 1
    /\ hist' = [hist EXCEPT
                  !.before = CurrentLayout,
                  !.applied = r.layout,
                  !.move = move,
                  !.outcome = IF r.valid THEN "pending" ELSE "invalid",
                  !.evaluated = r.evaluated,
                  !.consulted = FALSE,
                  !.prev_cost = current_cost,
                  !.polls = @ + 1,
                  !.chosen_while_shutting = IF is_shutting_down THEN @ + 1 ELSE @,
                  !.valid = IF r.valid THEN @ + 1 ELSE @]

\* One iteration up to the strategy's decision: a move is chosen, applied
\* and evaluated.
TrialMove ==
    /\ pc = "loop"
    /\ LoopHead = "trial"
    /\ \E move \in possible_moves :
        \E choice \in Choices(CurrentLayout, move, GRID_SIZE * params.move_step_grid_units) :
            Tried(move, apply_and_evaluate_move(CurrentLayout, move, choice))
    /\ UNCHANGED <<optimizer_is_running, is_shutting_down, view_enabled, progress_visible,
                   progress_value, status_message, window_closed, params, possible_moves,
                   current_cost, temperature, returned_cost, fsp, ed>>

\* The end of an iteration whose move was valid: the progress bar advances
\* and at a reporting interval the events are processed.  A reporting
\* interval of 0 raises ZeroDivisionError, which _run_optimizer_logic
\* catches and reports.
Report(interval) ==
    IF interval = 0
    THEN /\ status_message' = "OPTIMIZATION_FAILED"
         /\ Finally
         /\ pc' = "done"
         /\ i' = i
    ELSE /\ pc' = IF (i + 1) % interval = 0 THEN "yield" ELSE "loop"
         /\ i' = IF (i + 1) % interval = 0 THEN i ELSE i + 1
         /\ UNCHANGED <<optimizer_is_running, view_enabled, progress_visible,
                        status_message, window_closed>>

\* The loop body from the strategy's decision on: the move is kept or the
\* closure reverts it, leaving the layout reverted; the hook cools the
\* temperature.
Decided(accept, reverted) ==
    /\ current_cost' = IF accept THEN new_cost ELSE current_cost
    /\ SetLayout(IF accept THEN CurrentLayout ELSE reverted)
    /\ temperature' = IF params.strategy = "sa"
                      THEN sa_post_hook(temperature, params.cooling_rate)
                      ELSE temperature
    /\ progress_value' = i + 1
    /\ Report(params.reporting_interval)
    /\ hist' = [hist EXCEPT
                  !.outcome = IF accept THEN "accepted" ELSE "reverted",
                  !.consulted = TRUE,
                  !.best_cost = IF params.reporting_interval = 0 THEN @
                                ELSE Min2(@, IF accept THEN new_cost ELSE current_cost),
                  !.exit = IF params.reporting_interval = 0 THEN "raised" ELSE @,
                  !.completed_after_close = IF is_shutting_down THEN @ + 1 ELSE @,
                  !.yielded_at = IF params.reporting_interval # 0
                                    /\ (i + 1) % params.reporting_interval = 0
                                 THEN i + 1 ELSE @]

Decide ==
    /\ pc = "decide"
    /\ \E u \in BOOLEAN :
        Decided(strategy_func(params.strategy, current_cost, new_cost, temperature, u),
                Revert(CurrentLayout, revert_func))
    /\ UNCHANGED <<is_shutting_down, params, possible_moves, new_cost, revert_func,
                   returned_cost, fsp, ed>>

\* QApplication.processEvents returns and the iteration ends.
ProcessEventsReturn ==
    /\ pc = "yield"
    /\ pc' = "loop"
    /\ i' = i + 1
    /\ UNCHANGED <<layout, optimizer_is_running, is_shutting_down, view_enabled,
                   progress_visible, progress_value, status_message, window_closed,
                   params, possible_moves, current_cost, new_cost, revert_func,
                   temperature, returned_cost, hist, fsp, ed>>

\* The places of the call where the host's events are delivered: before
\* and after optimize_placement, and inside QApplication.processEvents.
EventsDelivered == {"idle", "yield", "done"}

\* A closeEvent that accepts the close whatever the optimizer does.
closeEventAccepting ==
    /\ pc \in EventsDelivered
    /\ ~window_closed
    /\ is_shutting_down' = TRUE
    /\ window_closed' = TRUE
    /\ UNCHANGED <<layout, optimizer_is_running, view_enabled, progress_visible,
                   progress_value, status_message, pc, params, possible_moves, i,
                   current_cost, new_cost, revert_func, temperature, returned_cost,
                   hist, fsp, ed>>

\* MainWindow.closeEvent.
closeEvent ==
    /\ pc \in EventsDelivered
    /\ ~window_closed
    /\ is_shutting_down' = TRUE
    /\ status_message' = IF optimizer_is_running THEN "FINISHING" ELSE status_message
    /\ window_closed' = ~optimizer_is_running
    /\ UNCHANGED <<layout, optimizer_is_running, view_enabled, progress_visible,
                   progress_value, pc, params, possible_moves, i, current_cost, new_cost,
                   revert_func, temperature, returned_cost, hist, fsp, ed>>

Next ==
    \/ optimize_placement
    \/ LoopExhausted
    \/ LoopCancelled
    \/ TrialMove
    \/ Decide
    \/ ProcessEventsReturn
    \/ closeEvent

Spec == Init /\ [][Next]_vars

\* The call of optimize_placement runs on the thread of the event loop:
\* QApplication.processEvents returns when the pending events are handled,
\* and the for statement the control has reached is executed.
LoopLeft == LoopExhausted \/ LoopCancelled

\* The run in which processEvents returns and the head of the loop is
\* executed; when the user starts a run or closes the window is left open,
\* and nothing is assumed of the trials.
SpecLive == Init /\ [][Next]_vars /\ WF_vars(ProcessEventsReturn) /\ WF_vars(LoopLeft)

\* ------------------------------------------------------------------ placing an item
RowNames == [k \in 1..RowBlocks |-> "r" \o ToString(k)]

\* A row of RowBlocks abutting blocks without pins, created at explicit
\* positions (create_block).
RowBlocksAt ==
    [b \in Range(RowNames) |->
        Block(STANDARD_BLOCK_WIDTH * (PlaceIn(RowNames, b) - 1), 0, FALSE)]

\* The scenes an item is placed in, as the rectangles of their Blocks and
\* DiagramPins.
FspScenes ==
    {SceneRects(L.blocks, L.dpins, "none") :
        L \in EmptyLayouts \cup SingleBlockLayouts
              \cup {TwoBlockLayout(TRUE, <<"X", "Y">>, FALSE, <<"A", "B">>)}}
    \cup {SceneRects(RowBlocksAt, NoItems, "none")}

\* The sizes of the items placed: a block without pins, and a diagram pin.
FspSizes ==
    {[w |-> STANDARD_BLOCK_WIDTH, h |-> GRID_SIZE * 2],
     [w |-> 2 * DiagramPinHalfSide, h |-> 2 * DiagramPinHalfSide]}

FspHints == {Pt(a, b) : a \in {-60, 0, 70, 90, 170}, b \in {-50, 0, 20, 30}}

InitPlace ==
    \E rects \in FspScenes, size \in FspSizes, hint \in FspHints, c \in BOOLEAN :
        /\ Window(Layout(NoItems, NoItems, NoItems, {}), Params("hc", 1, 0))
        /\ fsp = FspCall("call", rects, size, hint, c)
        /\ ed = Editing(Layout(NoItems, NoItems, NoItems, {}))

NotPlacing ==
    UNCHANGED <<layout, optimizer_is_running, is_shutting_down, view_enabled,
                progress_visible, progress_value, status_message, window_closed, pc,
                params, possible_moves, i, current_cost, new_cost, revert_func,
                temperature, returned_cost, hist, ed>>

\* Whether the item placed at pos overlaps a Block or DiagramPin.
FspOverlapping(pos) ==
    is_rect_overlapping(fsp.rects,
                        PlacedRect(pos, fsp.item_width, fsp.item_height, fsp.is_centered))

\* find_safe_placement up to its search loop: the snapped start position is
\* returned if it is free.
FspEnter(start_pos) ==
    fsp' = IF ~FspOverlapping(start_pos)
           THEN [fsp EXCEPT !.pc = "done", !.start_pos = start_pos, !.result = start_pos]
           ELSE [fsp EXCEPT !.pc = "loop", !.start_pos = start_pos,
                            !.x = 0, !.y = 0, !.dx = 0, !.dy = -GRID_SIZE]

FindSafePlacement ==
    /\ fsp.pc = "call"
    /\ FspEnter(StartPos(fsp.item_width, fsp.item_height, fsp.hint, fsp.is_centered))
    /\ NotPlacing

\* One pass of the search loop, (dx, dy) being the direction after the
\* corner test: the next position is returned if it is free.
FspStep(dx, dy) ==
    fsp' = IF ~FspOverlapping(Pt(fsp.start_pos.x + fsp.x + dx, fsp.start_pos.y + fsp.y + dy))
           THEN [fsp EXCEPT !.pc = "done", !.x = @ + dx, !.y = @ + dy, !.dx = dx, !.dy = dy,
                            !.result = Pt(fsp.start_pos.x + fsp.x + dx,
                                          fsp.start_pos.y + fsp.y + dy)]
           ELSE [fsp EXCEPT !.x = @ + dx, !.y = @ + dy, !.dx = dx, !.dy = dy]

FspSearch ==
    /\ fsp.pc = "loop"
    /\ WithinRadius(fsp.x, fsp.y)
    /\ FspStep(IF AtCorner(fsp.x, fsp.y) THEN -fsp.dy ELSE fsp.dx,
               IF AtCorner(fsp.x, fsp.y) THEN fsp.dx ELSE fsp.dy)
    /\ NotPlacing

\* The search loop ends without a free position: the start position is
\* returned.
FspLastResort ==
    /\ fsp.pc = "loop"
    /\ ~WithinRadius(fsp.x, fsp.y)
    /\ fsp' = [fsp EXCEPT !.pc = "done", !.result = fsp.start_pos]
    /\ NotPlacing

NextPlace ==
    \/ FindSafePlacement
    \/ FspSearch
    \/ FspLastResort

SpecPlace == InitPlace /\ [][NextPlace]_vars

\* The occupied region is smaller than the maximum search radius.
RegionSmall(rects) ==
    IF rects = {} THEN TRUE
    ELSE /\ UnitedAll(rects).w < BLOCK_PLACEMENT_SEARCH_MAX_RADIUS
         /\ UnitedAll(rects).h < BLOCK_PLACEMENT_SEARCH_MAX_RADIUS

\* The rectangle of the placed item at the position find_safe_placement
\* returned.
FspPlacedRect == PlacedRect(fsp.result, fsp.item_width, fsp.item_height, fsp.is_centered)

\* ------------------------------------------------------------------ evaluating the cost
\* The wires a layout of b1, b2, b3 and the diagram pins X, Y, Z, W can
\* hold.
CostWires ==
    {Wire(DiagramPinId(OUTPUT, "X"), BlockPinId("b1", INPUT, "A"), FALSE),
     Wire(DiagramPinId(OUTPUT, "Y"), BlockPinId("b1", INPUT, "B"), FALSE),
     Wire(DiagramPinId(OUTPUT, "X"), BlockPinId("b1", INPUT, "B"), FALSE),
     Wire(DiagramPinId(OUTPUT, "Y"), BlockPinId("b1", INPUT, "A"), FALSE),
     Wire(DiagramPinId(OUTPUT, "X"), BlockPinId("b2", INPUT, "I"), FALSE),
     Wire(BlockPinId("b1", OUTPUT, "O"), BlockPinId("b2", INPUT, "I"), FALSE),
     Wire(BlockPinId("b1", OUTPUT, "O"), DiagramPinId(INPUT, "W"), FALSE),
     Wire(BlockPinId("b2", OUTPUT, "R"), DiagramPinId(INPUT, "Z"), FALSE)}

\* The sets of wires create_wire can build: no input pin holds two wires.
CostWireSets ==
    {ws \in SUBSET CostWires :
        \A w1, w2 \in ws : w1.end_pin = w2.end_pin => w1 = w2}

\* b1 at the origin, b2 and the pinless b3 at the given positions, the
\* diagram inputs in the top-to-bottom order ttb_in, wired by ws.
CostLayout(b2_pos, b3_pos, ttb_in, ws) ==
    LET bl == [b \in {"b1", "b2", "b3"} |->
                  IF b = "b1" THEN Block(0, 0, FALSE)
                  ELSE IF b = "b2" THEN Block(b2_pos.x, b2_pos.y, FALSE)
                  ELSE Block(b3_pos.x, b3_pos.y, FALSE)]
    IN  Layout(bl, BlockPins(bl, <<"A", "B">>),
               DiagramPins(bl, <<"X", "Y">>, ttb_in, <<"Z", "W">>, <<"Z", "W">>), ws)

CostLayouts ==
    {CostLayout(b2_pos, b3_pos, ttb_in, ws) :
        b2_pos \in {Pt(480, 0), Pt(200, -120)},
        b3_pos \in {Pt(240, 0), Pt(240, 200), Pt(-240, 0)},
        ttb_in \in {<<"X", "Y">>, <<"Y", "X">>},
        ws \in CostWireSets}

InitCost ==
    \E L \in CostLayouts :
        /\ Window(L, Params("hc", 1, 0))
        /\ fsp = FspIdle
        /\ ed = Editing(L)

\* A cost evaluation that sets the diagram inputs to the order it finds them
\* in before it measures.
EvaluatedAfterReorder(L) ==
    [layout |-> set_diagram_pin_order(L, OUTPUT, YOrder(L.dpins, OUTPUT)),
     intersection_score |-> calculate_intersection_score(L.blocks, L.pin_index,
                                                         L.dpins, L.wires),
     total_cost |-> CostOf(L)]

\* What a call of calculate_diagram_cost on the layout L leaves and returns:
\* the layout, which the call only reads, the intersection score it logs
\* and the total cost.
Evaluated(L) ==
    [layout |-> L,
     intersection_score |-> calculate_intersection_score(L.blocks, L.pin_index,
                                                         L.dpins, L.wires),
     total_cost |-> CostOf(L)]

\* The call has returned e.
CostReturned(e) ==
    /\ SetLayout(e.layout)
    /\ returned_cost' = e.total_cost
    /\ hist' = [hist EXCEPT !.evaluations = @ + 1,
                            !.intersection_score = e.intersection_score,
                            !.prev_total = returned_cost]

\* MainWindow.calculate_diagram_cost, called by the host with the default
\* weights.
CalculateDiagramCost ==
    /\ hist.evaluations < MaxEvals
    /\ CostReturned(Evaluated(CurrentLayout))
    /\ UNCHANGED <<optimizer_is_running, is_shutting_down, view_enabled, progress_visible,
                   progress_value, status_message, window_closed, pc, params,
                   possible_moves, i, current_cost, new_cost, revert_func, temperature,
                   fsp, ed>>

NextCost == CalculateDiagramCost

SpecCost == InitCost /\ [][NextCost]_vars

\* ------------------------------------------------------------------ editing the wires
\* The scenes the editing starts from: an empty one; the blocks b1 and b2
\* with the diagram input X and the diagram output Z, unwired or wired
\* X -> b1.A, b1.O -> b2.I.
EditLayout(ws) ==
    LET bl == [b \in {"b1", "b2"} |->
                  IF b = "b1" THEN Block(0, 0, FALSE) ELSE Block(240, 0, FALSE)]
    IN  Layout(bl, BlockPins(bl, <<"A", "B">>),
               DiagramPins(bl, <<"X">>, <<"X">>, <<"Z">>, <<"Z">>), ws)

EditLayouts ==
    {Layout(NoItems, NoItems, NoItems, {}),
     EditLayout({}),
     EditLayout({Wire(DiagramPinId(OUTPUT, "X"), BlockPinId("b1", INPUT, "A"), FALSE),
                 Wire(BlockPinId("b1", OUTPUT, "O"), BlockPinId("b2", INPUT, "I"), FALSE)})}

\* A session of the given numbers of edits and wire drags on the layout L.
Session(L, edits, drags) ==
    /\ Window(L, Params("hc", 1, 0))
    /\ fsp = FspIdle
    /\ ed = [Editing(L) EXCEPT !.edits_left = edits, !.drags_left = drags]

InitEdit == \E L \in EditLayouts : Session(L, MaxEdits, MaxDrags)

\* What an editing handler leaves alone: the state of the optimization run.
EditFrame ==
    UNCHANGED <<optimizer_is_running, is_shutting_down, view_enabled, progress_visible,
                progress_value, status_message, window_closed, pc, params,
                possible_moves, i, current_cost, new_cost, revert_func, temperature,
                returned_cost, hist>>

\* The handler op has run to its end and left the layout L and the editing
\* state E; ok tells whether it did what it was called for.
Edited(L, E, op, ok, why) ==
    /\ SetLayout(L)
    /\ ed' = [E EXCEPT !.op = op, !.ok = ok, !.why = why]
    /\ UNCHANGED fsp
    /\ EditFrame

\* The pins in the scene: the pins of its blocks and its diagram pins.
ScenePins == DOMAIN pin_index \cup DOMAIN dpins

\* Wire.__init__: the wire enters the wire list of each pin it has.
Listed(pw, w) ==
    [p \in DOMAIN pw |-> IF p = w.start_pin \/ p = w.end_pin THEN pw[p] \cup {w} ELSE pw[p]]

\* remove_wire on each of the wires removed: a wire leaves the wire lists of
\* the pins it has.
Unlisted(pw, removed) ==
    [p \in DOMAIN pw |-> pw[p] \ {w \in removed : p = w.start_pin \/ p = w.end_pin}]

\* create_wire without the test of the pin types.
create_wire_of_any_types(ws, pw, start_pin, end_pin) ==
    IF start_pin = NoPin \/ end_pin = NoPin
    THEN [wires |-> ws, pin_wires |-> pw, ok |-> FALSE, why |-> "no_pin"]
    ELSE IF pw[end_pin] # {}
    THEN [wires |-> ws, pin_wires |-> pw, ok |-> FALSE, why |-> "input_full"]
    ELSE [wires |-> ws \cup {Wire(start_pin, end_pin, FALSE)},
          pin_wires |-> Listed(pw, Wire(start_pin, end_pin, FALSE)),
          ok |-> TRUE, why |-> "none"]

\* create_wire entering the wire in the lists of its pins before it looks
\* at the destination.
create_wire_listing_first(ws, pw, start_pin, end_pin) ==
    IF start_pin = NoPin \/ end_pin = NoPin
    THEN [wires |-> ws, pin_wires |-> pw, ok |-> FALSE, why |-> "no_pin"]
    ELSE IF start_pin.type # OUTPUT \/ end_pin.type # INPUT
    THEN [wires |-> ws, pin_wires |-> pw, ok |-> FALSE, why |-> "pin_type"]
    ELSE IF pw[end_pin] # {}
    THEN [wires |-> ws, pin_wires |-> Listed(pw, Wire(start_pin, end_pin, FALSE)),
          ok |-> FALSE, why |-> "input_full"]
    ELSE [wires |-> ws \cup {Wire(start_pin, end_pin, FALSE)},
          pin_wires |-> Listed(pw, Wire(start_pin, end_pin, FALSE)),
          ok |-> TRUE, why |-> "none"]

\* BlockDiagramScene.create_wire on the wires ws and the wire lists pw: the
\* wires and lists it leaves, whether it returned a wire, and why not.
create_wire(ws, pw, start_pin, end_pin) ==
    IF start_pin = NoPin \/ end_pin = NoPin
    THEN [wires |-> ws, pin_wires |-> pw, ok |-> FALSE, why |-> "no_pin"]
    ELSE IF start_pin.type # OUTPUT \/ end_pin.type # INPUT
    THEN [wires |-> ws, pin_wires |-> pw, ok |-> FALSE, why |-> "pin_type"]
    ELSE IF pw[end_pin] # {}
    THEN [wires |-> ws, pin_wires |-> pw, ok |-> FALSE, why |-> "input_full"]
    ELSE [wires |-> ws \cup {Wire(start_pin, end_pin, FALSE)},
          pin_wires |-> Listed(pw, Wire(start_pin, end_pin, FALSE)),
          ok |-> TRUE, why |-> "none"]

\* The host or a handler has used up one of the edits of the session.
Counted(E) == [E EXCEPT !.edits_left = @ - 1]

\* The host calls scene.create_wire with two pins of the scene, or with None
\* for one of them.
CreateWire ==
    /\ ed.edits_left > 0
    /\ \E start_pin \in ScenePins \cup {NoPin}, end_pin \in ScenePins \cup {NoPin} :
        LET r == create_wire(wires, ed.pin_wires, start_pin, end_pin)
        IN  Edited(Layout(blocks, pin_index, dpins, r.wires),
                   [Counted(ed) EXCEPT !.pin_wires = r.pin_wires],
                   "create_wire", r.ok, r.why)

\* BlockDiagramScene.remove_wire on a wire of the scene.
RemoveWire ==
    /\ ed.edits_left > 0
    /\ \E wire \in wires :
        Edited(Layout(blocks, pin_index, dpins, wires \ {wire}),
               [Counted(ed) EXCEPT !.pin_wires = Unlisted(@, {wire})],
               "remove_wire", TRUE, "none")

\* f without the keys gone.
Without(f, gone) == [k \in DOMAIN f \ gone |-> f[k]]

\* BlockDiagramScene.delete_selected_items, the blocks sb, the diagram pins
\* sp and the wires sw being selected: the wires selected and the wires the
\* pins of the nodes selected list are removed, then the nodes, and the
\* diagram pins are realigned.
delete_selected_items(sb, sp, sw) ==
    LET pins_to_check == {p \in DOMAIN pin_index : p.owner \in sb} \cup sp
        wires_to_remove == sw \cup UNION {ed.pin_wires[p] : p \in pins_to_check}
        bl == Without(blocks, sb)
    IN  Edited(Layout(bl, Without(pin_index, pins_to_check),
                      realign_diagram_pins(bl, Without(dpins, sp)),
                      wires \ wires_to_remove),
               [Counted(ed) EXCEPT !.pin_wires = Unlisted(@, wires_to_remove),
                                   !.block_name = Without(@, sb),
                                   !.pin_name = Without(@, sp),
                                   !.deleted_blocks = @ \cup sb],
               "delete_selected_items", TRUE, "none")

\* The Delete key (keyPressEvent) or the Delete entry of a context menu, one
\* block, one diagram pin or one wire being selected.
DeleteSelectedItems ==
    /\ ed.edits_left > 0
    /\ \E sb \in {{b} : b \in DOMAIN blocks} \cup {{}} :
       \E sp \in IF sb = {} THEN {{p} : p \in DOMAIN dpins} \cup {{}} ELSE {{}} :
       \E sw \in IF sb = {} /\ sp = {} THEN {{w} : w \in wires} ELSE {{}} :
        delete_selected_items(sb, sp, sw)

\* The provisional wire of a drag from pin: Wire(pin, None).
TempWire(pin) == Wire(pin, NoPin, FALSE)

\* Ctrl+click on a pin (BlockPin.mousePressEvent, or
\* BlockDiagramScene.mousePressEvent for a DiagramPin): _start_wire_drag
\* creates the provisional wire, which enters the wire list of the pin.
StartWireDrag ==
    /\ ~ed.temp_wire
    /\ ed.drags_left > 0
    /\ \E pin \in ScenePins :
        Edited(CurrentLayout,
               [ed EXCEPT !.temp_wire = TRUE, !.start_pin_for_wire = pin,
                          !.pin_wires = Listed(@, TempWire(pin)),
                          !.drags_left = @ - 1],
               "start_wire_drag", TRUE, "none")

\* BlockDiagramScene._get_valid_target_pin; item_under_mouse is NoPin when
\* it is not a pin.
get_valid_target_pin(item_under_mouse) ==
    IF item_under_mouse = NoPin THEN NoPin
    ELSE IF item_under_mouse = ed.start_pin_for_wire THEN NoPin
    ELSE IF ed.start_pin_for_wire.owner = "diagram" /\ item_under_mouse.owner = "diagram"
    THEN NoPin
    ELSE IF ed.start_pin_for_wire.type = item_under_mouse.type THEN NoPin
    ELSE IF item_under_mouse.type = INPUT /\ ed.pin_wires[item_under_mouse] # {} THEN NoPin
    ELSE item_under_mouse

\* BlockDiagramScene.mouseMoveEvent while a wire is dragged, the mouse being
\* over a pin of the scene or over something else.
MouseMoveEvent ==
    /\ ed.temp_wire
    /\ \E item_under_mouse \in ScenePins \cup {NoPin} :
        Edited(CurrentLayout,
               [ed EXCEPT !.hovered_pin = get_valid_target_pin(item_under_mouse)],
               "mouse_move", TRUE, "none")

\* BlockDiagramScene.mouseReleaseEvent while a wire is dragged:
\* _finalize_wire_connection calls create_wire from the output pin to the
\* input pin of the two when a pin is hovered, then _reset_wire_drag_state
\* takes the provisional wire off its pin.
MouseReleaseEvent ==
    /\ ed.temp_wire
    /\ LET start_pin == ed.start_pin_for_wire
           end_pin == ed.hovered_pin
           r == IF end_pin = NoPin
                THEN [wires |-> wires, pin_wires |-> ed.pin_wires, ok |-> FALSE,
                      why |-> "no_valid_pin"]
                ELSE create_wire(wires, ed.pin_wires,
                                 IF start_pin.type = OUTPUT THEN start_pin ELSE end_pin,
                                 IF start_pin.type = OUTPUT THEN end_pin ELSE start_pin)
       IN  Edited(Layout(blocks, pin_index, dpins, r.wires),
                  [ed EXCEPT !.pin_wires = Unlisted(r.pin_wires, {TempWire(start_pin)}),
                             !.hovered_pin = NoPin, !.start_pin_for_wire = NoPin,
                             !.temp_wire = FALSE],
                  "wire_drag", r.ok, r.why)

\* The editing of the wires of a scene.
NextEdit ==
    \/ CreateWire
    \/ RemoveWire
    \/ DeleteSelectedItems
    \/ StartWireDrag
    \/ MouseMoveEvent
    \/ MouseReleaseEvent

SpecEdit == InitEdit /\ [][NextEdit]_vars

\* ------------------------------------------------------------------ editing the items
\* The Block objects of a session, b1 with the pins A, B and O, b2 with I
\* and R, b3 without pins, and the names typed for blocks.
EditBlocks == {"b1", "b2", "b3"}

BlockNamesTyped == {"b1", "b3"}

\* The DiagramPin objects of a session, the DiagramInputPins X and Y and the
\* DiagramOutputPins Z and W, and the names typed for diagram pins.
EditDiagramPins ==
    {DiagramPinId(OUTPUT, "X"), DiagramPinId(OUTPUT, "Y"),
     DiagramPinId(INPUT, "Z"), DiagramPinId(INPUT, "W")}

PinNamesTyped == {"X", "Z"}

\* The positions and placement hints given: one off the grid and free, and
\* the centre of the block b2.
EditHints == {Pt(90, 230), Pt(320, 20)}

\* A name check that lets every block name pass.
BlockNameUnchecked(name, ignore) == TRUE

\* _is_name_unique for a Block and for a DiagramPin of the pin types of
\* item_class_or_tuple, the item ignore being left out.
BlockNameUnique(name, ignore) ==
    \A b \in DOMAIN blocks \ {ignore} : ed.block_name[b] # name

PinNameUnique(name, types, ignore) ==
    \A p \in DOMAIN dpins \ {ignore} : p.type \in types => ed.pin_name[p] # name

\* Block.add_input_pin and Block.add_output_pin on the pin indices idx: a
\* name the block has on either side adds nothing; the new pin takes the
\* number of pins of its side as its index.
add_pin(idx, b, pin_type, name) ==
    IF \E p \in DOMAIN idx : p.owner = b /\ p.name = name THEN idx
    ELSE idx @@ (BlockPinId(b, pin_type, name) :>
                    Cardinality({p \in DOMAIN idx : p.owner = b /\ p.type = pin_type}))

\* The loops of create_block over input_pins and output_pins.
RECURSIVE AddPins(_, _, _, _)
AddPins(idx, b, pin_type, names) ==
    IF names = <<>> THEN idx
    ELSE AddPins(add_pin(idx, b, pin_type, Head(names)), b, pin_type, Tail(names))

\* The wire lists with the empty lists of the pins created.
WithPins(pw, pins) == [p \in DOMAIN pw \cup pins |-> IF p \in DOMAIN pw THEN pw[p] ELSE {}]

\* The stacking rank of an item added to the scene: above the diagram pins
\* there are.
TopZ == 1 + MaxOf({dpins[p].z : p \in DOMAIN dpins} \cup {0})

\* A pass of the search loop that steps against the direction.
FspPassBackwards(rects, size, is_centered, start_pos, st) ==
    IF st.done THEN st
    ELSE IF ~WithinRadius(st.x, st.y) THEN [st EXCEPT !.done = TRUE, !.result = start_pos]
    ELSE LET turned_dx == IF AtCorner(st.x, st.y) THEN -st.dy ELSE st.dx
             turned_dy == IF AtCorner(st.x, st.y) THEN st.dx ELSE st.dy
             current_pos == Pt(start_pos.x + st.x - turned_dx, start_pos.y + st.y - turned_dy)
         IN  IF ~is_rect_overlapping(rects, PlacedRect(current_pos, size.w, size.h,
                                                       is_centered))
             THEN [st EXCEPT !.done = TRUE, !.result = current_pos]
             ELSE [st EXCEPT !.x = @ - turned_dx, !.y = @ - turned_dy,
                             !.dx = turned_dx, !.dy = turned_dy]

\* One pass of the search loop of find_safe_placement from the offset and
\* direction of st: the search returns start_pos when it has left the
\* radius, or the next position when it is free; a pass after the return
\* changes nothing.
FspPass(rects, size, is_centered, start_pos, st) ==
    IF st.done THEN st
    ELSE IF ~WithinRadius(st.x, st.y) THEN [st EXCEPT !.done = TRUE, !.result = start_pos]
    ELSE LET turned_dx == IF AtCorner(st.x, st.y) THEN -st.dy ELSE st.dx
             turned_dy == IF AtCorner(st.x, st.y) THEN st.dx ELSE st.dy
             current_pos == Pt(start_pos.x + st.x + turned_dx, start_pos.y + st.y + turned_dy)
         IN  IF ~is_rect_overlapping(rects, PlacedRect(current_pos, size.w, size.h,
                                                       is_centered))
             THEN [st EXCEPT !.done = TRUE, !.result = current_pos]
             ELSE [st EXCEPT !.x = @ + turned_dx, !.y = @ + turned_dy,
                             !.dx = turned_dx, !.dy = turned_dy]

\* n passes of the search loop, one after the other.
RECURSIVE FspPasses(_, _, _, _, _, _)
FspPasses(rects, size, is_centered, start_pos, st, n) ==
    IF st.done \/ n = 0 THEN st
    ELSE IF n = 1 THEN FspPass(rects, size, is_centered, start_pos, st)
    ELSE FspPasses(rects, size, is_centered, start_pos,
                   FspPasses(rects, size, is_centered, start_pos, st, n \div 2),
                   n - n \div 2)

\* The passes a search that visits no offset twice can make within the
\* radius.
FspMaxPasses ==
    (2 * (BLOCK_PLACEMENT_SEARCH_MAX_RADIUS \div GRID_SIZE) + 1)
    * (2 * (BLOCK_PLACEMENT_SEARCH_MAX_RADIUS \div GRID_SIZE) + 1)

\* The search loop of find_safe_placement from the offset (x, y) reached in
\* the direction (dx, dy): the first free position, or start_pos when the
\* search leaves the radius.
FspLoop(rects, size, is_centered, start_pos, x, y, dx, dy) ==
    FspPasses(rects, size, is_centered, start_pos,
              [x |-> x, y |-> y, dx |-> dx, dy |-> dy, done |-> FALSE, result |-> start_pos],
              FspMaxPasses).result

\* find_safe_placement as one call.
find_safe_placement(rects, size, search_center_hint, is_centered) ==
    LET start_pos == StartPos(size.w, size.h, search_center_hint, is_centered)
    IN  IF ~is_rect_overlapping(rects, PlacedRect(start_pos, size.w, size.h, is_centered))
        THEN start_pos
        ELSE FspLoop(rects, size, is_centered, start_pos, 0, 0, 0, -GRID_SIZE)

\* MainWindow.create_block (and add_new_block, which asks for the name):
\* _create_item checks the name and constructs the Block, which has no pins
\* yet, at the position find_safe_placement finds from the hint; the block is
\* added to the scene, the pins of input_pins and of output_pins are added
\* to it, and the diagram pins are realigned.
create_block(key, name, hint, input_pins, output_pins) ==
    LET pos == find_safe_placement(SceneRects(blocks, dpins, "none"),
                                   [w |-> STANDARD_BLOCK_WIDTH, h |-> GRID_SIZE * 2],
                                   hint, FALSE)
        bl == blocks @@ (key :> Block(pos.x, pos.y, FALSE))
        idx == AddPins(AddPins(pin_index, key, INPUT, input_pins), key, OUTPUT, output_pins)
    IN  IF ~BlockNameUnique(name, "none")
        THEN Edited(CurrentLayout, Counted(ed), "create_block", FALSE, "duplicate_name")
        ELSE Edited(Layout(bl, idx, realign_diagram_pins(bl, dpins), wires),
                    [Counted(ed) EXCEPT !.block_name = @ @@ (key :> name),
                                        !.pin_wires = WithPins(@, DOMAIN idx)],
                    "create_block", TRUE, "none")

\* The host creates one of the Block objects not created yet, with the pin
\* names of the object, each list once or with names that are taken already.
CreateBlock ==
    /\ ed.edits_left > 0
    /\ \E key \in EditBlocks \ (DOMAIN blocks \cup ed.deleted_blocks),
          name \in BlockNamesTyped, hint \in EditHints, again \in BOOLEAN :
        create_block(key, name, hint,
                     InputSeq(key) \o (IF again THEN InputSeq(key) ELSE <<>>),
                     OutputSeq(key) \o (IF again THEN InputSeq(key) ELSE <<>>))

\* MainWindow.create_diagram_input and create_diagram_output (and
\* add_new_diagram_input, add_new_diagram_output): the name is checked among
\* the pins of the same class, the pin is constructed without a hint and
\* added to the scene, and the diagram pins are realigned.
create_diagram_pin(kind, pin, name) ==
    LET pos == find_safe_placement(SceneRects(blocks, dpins, "none"),
                                   [w |-> 2 * DiagramPinHalfSide, h |-> 2 * DiagramPinHalfSide],
                                   Pt(0, 0), TRUE)
        dp == dpins @@ (pin :> [x |-> pos.x, y |-> pos.y, z |-> TopZ])
    IN  IF ~PinNameUnique(name, {pin.type}, NoPin)
        THEN Edited(CurrentLayout, Counted(ed), kind, FALSE, "duplicate_name")
        ELSE Edited(Layout(blocks, pin_index, realign_diagram_pins(blocks, dp), wires),
                    [Counted(ed) EXCEPT !.pin_name = @ @@ (pin :> name),
                                        !.pin_wires = WithPins(@, {pin})],
                    kind, TRUE, "none")

CreateDiagramPin(kind, pin_type) ==
    /\ ed.edits_left > 0
    /\ \E pin \in {p \in EditDiagramPins : p.type = pin_type} \ DOMAIN ed.pin_wires,
          name \in PinNamesTyped :
        create_diagram_pin(kind, pin, name)

CreateDiagramInput == CreateDiagramPin("create_diagram_input", OUTPUT)

CreateDiagramOutput == CreateDiagramPin("create_diagram_output", INPUT)

\* MainWindow.rename_block: _rename_item with the name typed into the dialog.
RenameBlock ==
    /\ ed.edits_left > 0
    /\ \E b \in DOMAIN blocks, new_name \in BlockNamesTyped :
        IF new_name = ed.block_name[b]
        THEN Edited(CurrentLayout, Counted(ed), "rename_block", FALSE, "same_name")
        ELSE IF ~BlockNameUnique(new_name, b)
        THEN Edited(CurrentLayout, Counted(ed), "rename_block", FALSE, "duplicate_name")
        ELSE Edited(Layout(blocks, pin_index, realign_diagram_pins(blocks, dpins), wires),
                    [Counted(ed) EXCEPT !.block_name[b] = new_name],
                    "rename_block", TRUE, "none")

\* MainWindow.rename_diagram_pin: the name is checked among the diagram pins
\* of both classes.
RenameDiagramPin ==
    /\ ed.edits_left > 0
    /\ \E pin \in DOMAIN dpins, new_name \in PinNamesTyped :
        IF new_name = ed.pin_name[pin]
        THEN Edited(CurrentLayout, Counted(ed), "rename_diagram_pin", FALSE, "same_name")
        ELSE IF ~PinNameUnique(new_name, {INPUT, OUTPUT}, pin)
        THEN Edited(CurrentLayout, Counted(ed), "rename_diagram_pin", FALSE,
                    "duplicate_name")
        ELSE Edited(CurrentLayout, [Counted(ed) EXCEPT !.pin_name[pin] = new_name],
                    "rename_diagram_pin", TRUE, "none")

\* MainWindow.add_pin_to_selected_block: the pin name typed is one of the
\* selected block, or P for the block b3.
AddPinToSelectedBlock ==
    /\ ed.edits_left > 0
    /\ \E b \in DOMAIN blocks \cap EditBlocks, pin_type \in {INPUT, OUTPUT} :
       \E pin_name \in InputNames(b) \cup OutputNames(b)
                       \cup (IF b = "b3" THEN {"P"} ELSE {}) :
        IF \E p \in DOMAIN pin_index : p.owner = b /\ p.name = pin_name
        THEN Edited(CurrentLayout, Counted(ed), "add_pin", FALSE, "duplicate_name")
        ELSE Edited(Layout(blocks, add_pin(pin_index, b, pin_type, pin_name),
                           realign_diagram_pins(blocks, dpins), wires),
                    [Counted(ed) EXCEPT !.pin_wires =
                        WithPins(@, {BlockPinId(b, pin_type, pin_name)})],
                    "add_pin", TRUE, "none")


\* The lists of pin names passed to set_block_pin_order: every list of up to
\* MaxListLen of the names A and B, and the single names of the other pins.
OrderLists ==
    UNION {[1..n -> {"A", "B"}] : n \in 0..MaxListLen} \cup {<<"O">>, <<"I">>, <<"P">>}

\* The blocks of the name block_name: set_block_pin_order takes the first.
BlocksNamed(block_name) == {b \in DOMAIN blocks : ed.block_name[b] = block_name}

\* The host calls MainWindow.set_block_pin_order.
SetBlockPinOrder ==
    /\ ed.edits_left > 0
    /\ \E block_name \in BlockNamesTyped, pin_type \in {INPUT, OUTPUT},
          ordered_pin_names \in OrderLists :
        IF BlocksNamed(block_name) = {}
        THEN Edited(CurrentLayout, Counted(ed), "set_block_pin_order", FALSE, "not_found")
        ELSE \E b \in BlocksNamed(block_name) :
                Edited(set_block_pin_order(CurrentLayout, b, pin_type, ordered_pin_names),
                       Counted(ed), "set_block_pin_order",
                       Range(ordered_pin_names) = PinKeys(pin_index, b, pin_type),
                       "none")

\* Block.realign_pins, ys being the heights of the pins in the block: the
\* pins of each side are numbered by height, pins of one height in the order
\* they were added to the block.
realign_pins(idx, b, ys) ==
    [p \in DOMAIN idx |->
        IF p.owner # b THEN idx[p]
        ELSE Cardinality({q \in DOMAIN idx :
                /\ q # p
                /\ q.owner = b
                /\ q.type = p.type
                /\ \/ ys[q] < ys[p]
                   \/ /\ ys[q] = ys[p]
                      /\ PlaceIn(PinSeq(b, p.type), q.name) < PlaceIn(PinSeq(b, p.type), p.name)})]

\* The user drags the pin of a block to the height y and releases it
\* (BlockPin.mouseReleaseEvent): the block realigns its pins.
RealignPins ==
    /\ ed.edits_left > 0
    /\ \E pin \in DOMAIN pin_index, y \in {0, GRID_SIZE + 10, 3 * GRID_SIZE} :
        LET b == pin.owner
            ys == [q \in DOMAIN pin_index |->
                      IF q = pin THEN Min2(y, AutoHeight(b))
                      ELSE BlockPinPos(blocks, pin_index, q).y - blocks[q.owner].y]
        IN  Edited(Layout(blocks, realign_pins(pin_index, b, ys), dpins, wires),
                   Counted(ed), "realign_pins", TRUE, "none")

\* The editing of the items of a scene.
NextItems ==
    \/ CreateBlock
    \/ CreateDiagramInput
    \/ CreateDiagramOutput
    \/ RenameBlock
    \/ RenameDiagramPin
    \/ AddPinToSelectedBlock
    \/ DeleteSelectedItems
    \/ CreateWire
    \/ SetBlockPinOrder
    \/ RealignPins

InitItems == \E L \in EditLayouts : Session(L, MaxItemEdits, 0)

SpecItems == InitItems /\ [][NextItems]_vars

\* ------------------------------------------------------------------ moving the items
\* A scene crowded along the whole search path of find_safe_placement from
\* the second of the EditHints: the row of RowBlocks blocks, moved 18 grid
\* steps to the right and each locked by the user.
RowLayout ==
    Layout([b \in DOMAIN RowBlocksAt |->
                [RowBlocksAt[b] EXCEPT !.x = @ + 18 * GRID_SIZE, !.locked = TRUE]],
           NoItems, NoItems, {})

\* The positions given to move_block and the positions a diagram pin is
\* dragged to, on the grid and off it.
MovePositions == {Pt(-30, 10), Pt(250, 50), Pt(120, 100)}

\* MainWindow.move_block with a name typed by the host.
MoveBlock ==
    /\ ed.edits_left > 0
    /\ \E block_name \in BlockNamesTyped, pos \in MovePositions :
        IF BlocksNamed(block_name) = {}
        THEN Edited(CurrentLayout, Counted(ed), "move_block", FALSE, "not_found")
        ELSE \E b \in BlocksNamed(block_name) :
                Edited(move_block(CurrentLayout, b, pos.x, pos.y),
                       Counted(ed), "move_block", TRUE, "none")

\* The lists of names given to set_diagram_pin_order.
DiagramOrderLists == UNION {[1..n -> PinNamesTyped] : n \in 0..MaxListLen}

\* The diagram pins of the type pin_type by the names they carry.
PinsNamed(pin_type, name) ==
    {p \in PinsOfType(dpins, pin_type) : ed.pin_name[p] = name}

\* The host has used up an edit on a call with the arguments pin_type and
\* ordered_pin_names.
Called(pin_type, ordered_pin_names) ==
    [Counted(ed) EXCEPT !.args = [pin_type |-> pin_type, names |-> ordered_pin_names]]

\* MainWindow.set_diagram_pin_order with names typed by the host:
\* pins_to_reorder maps each name to the pin that carries it.
SetDiagramPinOrder ==
    /\ ed.edits_left > 0
    /\ \E pin_type \in {OUTPUT, INPUT}, ordered_pin_names \in DiagramOrderLists :
        IF Range(ordered_pin_names) # {ed.pin_name[p] : p \in PinsOfType(dpins, pin_type)}
        THEN Edited(CurrentLayout, Called(pin_type, ordered_pin_names),
                    "set_diagram_pin_order", FALSE, "mismatch")
        ELSE Edited(set_diagram_pin_order(
                        CurrentLayout, pin_type,
                        [k \in DOMAIN ordered_pin_names |->
                            (CHOOSE p \in PinsNamed(pin_type, ordered_pin_names[k]) : TRUE).name]),
                    Called(pin_type, ordered_pin_names),
                    "set_diagram_pin_order", TRUE, "none")

\* The user drags a diagram pin to pos and releases it
\* (DiagramPin.mouseReleaseEvent): itemChange snaps the position, and the
\* release realigns the diagram pins.
DragDiagramPin ==
    /\ ed.edits_left > 0
    /\ \E p \in DOMAIN dpins, pos \in MovePositions :
        Edited(Layout(blocks, pin_index,
                      realign_diagram_pins(blocks,
                                           [dpins EXCEPT ![p].x = Snap(pos.x),
                                                         ![p].y = Snap(pos.y)]),
                      wires),
               Counted(ed), "drag_diagram_pin", TRUE, "none")

\* One iteration of the optimization loop: a move of the list is applied
\* with random choices; a valid move is kept or its revert closure is
\* called.
OptimizerIteration ==
    /\ ed.edits_left > 0
    /\ \E move \in BuildMoves(blocks, dpins, wires), keep \in BOOLEAN :
       \E choice \in Choices(CurrentLayout, move, GRID_SIZE) :
        LET r == apply_and_evaluate_move(CurrentLayout, move, choice)
        IN  IF r.valid /\ ~keep
            THEN Edited(Revert(r.layout, r.revert), Counted(ed), "revert", TRUE, "none")
            ELSE Edited(r.layout, Counted(ed), "apply", r.valid, "none")

\* The operations that position the items of a scene.
NextPositions ==
    \/ CreateBlock
    \/ CreateDiagramInput
    \/ CreateDiagramOutput
    \/ MoveBlock
    \/ SetDiagramPinOrder
    \/ DragDiagramPin
    \/ OptimizerIteration

InitPositions ==
    \/ \E L \in EditLayouts : Session(L, MaxItemEdits, 0)
    \/ Session(RowLayout, MaxRowEdits, 0)

SpecPositions == InitPositions /\ [][NextPositions]_vars

\* ------------------------------------------------------------------ the host's events
\* A view that delivers the events of the user whether it is enabled or not.
ViewDeliversDisabledToo == ~window_closed

\* The QGraphicsView delivers the mouse, key and context-menu events of the
\* user to the scene while it is enabled; optimize_placement disables it
\* for the run (view.setEnabled(False)) and enables it in its finally
\* clause.
ViewDelivers == view_enabled /\ ~window_closed

\* The events of the user the host's event loop delivers once a run has been
\* started: inside QApplication.processEvents and after the return of
\* optimize_placement.
UserEventsDelivered == {"yield", "done"}

\* The Delete key (BlockDiagramScene.keyPressEvent): delete_selected_items.
KeyPressEvent ==
    /\ pc \in UserEventsDelivered
    /\ ViewDelivers
    /\ DeleteSelectedItems

\* "Optimize placement" of the scene's context menu
\* (optimizePlacementRequested), when a run has been started already:
\* optimize_placement is entered again and runs to its end, here a run of
\* one iteration whose move is kept or reverted; its finally clause resets
\* the state.  ok records whether no run was in progress at the call.
OptimizePlacementRequested ==
    /\ pc \in UserEventsDelivered
    /\ ViewDelivers
    /\ ed.edits_left > 0
    /\ \E keep \in BOOLEAN :
        IF BuildMoves(blocks, dpins, wires) = {}
        THEN SetLayout(CurrentLayout)
        ELSE \E move \in BuildMoves(blocks, dpins, wires) :
             \E choice \in Choices(CurrentLayout, move,
                                   GRID_SIZE * params.move_step_grid_units) :
                LET r == apply_and_evaluate_move(CurrentLayout, move, choice)
                IN  SetLayout(IF r.valid /\ ~keep THEN Revert(r.layout, r.revert)
                              ELSE r.layout)
    /\ Finally
    /\ ed' = [Counted(ed) EXCEPT !.op = "optimize_placement",
                                 !.ok = ~optimizer_is_running, !.why = "none"]
    /\ UNCHANGED <<is_shutting_down, progress_value, status_message, pc, params,
                   possible_moves, i, current_cost, new_cost, revert_func, temperature,
                   returned_cost, hist, fsp>>

\* The run with the events of the user the host delivers.
NextHost ==
    \/ optimize_placement
    \/ LoopExhausted
    \/ LoopCancelled
    \/ TrialMove
    \/ Decide
    \/ ProcessEventsReturn
    \/ closeEvent
    \/ KeyPressEvent
    \/ OptimizePlacementRequested

InitHost ==
    \E L \in InitialLayouts, pr \in ParamSets :
        /\ Window(L, pr)
        /\ fsp = FspIdle
        /\ ed = [Editing(L) EXCEPT !.edits_left = MaxEdits]

SpecHost == InitHost /\ [][NextHost]_vars

\* ------------------------------------------------------------------ properties
\* The last trial was rejected and its revert closure has run.
Reverted(type) == hist.move.type = type /\ hist.outcome = "reverted"

\* C1: a REORDER_DIAGRAM_PINS trial that is applied and then reverted leaves
\* the diagram pins of its class in their original top-to-bottom order and
\* at their original positions.
C1_DiagramPinsRoundTrip ==
    Reverted(REORDER_DIAGRAM_PINS) =>
        /\ YOrder(dpins, hist.move.pin_type) = YOrder(hist.before.dpins, hist.move.pin_type)
        /\ dpins = hist.before.dpins

\* C2: a MOVE_BLOCK trial that is applied and then reverted leaves the layout
\* as it was before the trial: every block, every diagram pin and every pin
\* index.
C2_MoveBlockRoundTrip ==
    Reverted(MOVE_BLOCK) => CurrentLayout = hist.before

\* C3: applying a REORDER_BLOCK_PINS trial changes pin indices only (the
\* wires, and so the pins they connect, the blocks and the diagram pins are
\* as before), and reverting it restores every pin index.
C3_BlockPinsRoundTrip ==
    hist.move.type = REORDER_BLOCK_PINS =>
        /\ hist.applied.wires = hist.before.wires
        /\ hist.applied.blocks = hist.before.blocks
        /\ hist.applied.dpins = hist.before.dpins
        /\ DOMAIN hist.applied.pin_index = DOMAIN hist.before.pin_index
        /\ \A p \in DOMAIN hist.before.pin_index :
              (p.owner # hist.move.block \/ p.type # hist.move.pin_type)
                  => hist.applied.pin_index[p] = hist.before.pin_index[p]
        /\ hist.outcome = "reverted" => CurrentLayout = hist.before

\* The input pins A, B of b1 were reversed from {A:0, B:1} to {A:1, B:0} and
\* the reversal was reverted.
C3_Witness ==
    /\ Reverted(REORDER_BLOCK_PINS)
    /\ hist.before.pin_index[BlockPinId("b1", INPUT, "A")] = 0
    /\ hist.before.pin_index[BlockPinId("b1", INPUT, "B")] = 1
    /\ hist.applied.pin_index[BlockPinId("b1", INPUT, "A")] = 1
    /\ hist.applied.pin_index[BlockPinId("b1", INPUT, "B")] = 0
    /\ pin_index[BlockPinId("b1", INPUT, "A")] = 0

\* C4: under hill-climbing a trial is accepted iff its cost is lower than
\* the current cost, the current cost never rises from one iteration to the
\* next, and the cost returned is at most the initial cost.
C4_HillClimbingMonotone ==
    params.strategy = "hc" =>
        /\ hist.outcome \in {"accepted", "reverted"} =>
              (hist.outcome = "accepted" <=> new_cost < hist.prev_cost)
        /\ hist.outcome = "accepted" => current_cost = new_cost
        /\ hist.outcome = "reverted" => current_cost = hist.prev_cost
        /\ hist.invoked => current_cost <= hist.prev_cost /\ current_cost <= hist.initial_cost
        /\ hist.exit \in {"exhausted", "cancelled"} => returned_cost <= hist.initial_cost

\* A hill-climbing run that ended below its initial cost and whose last
\* trial, of equal cost, was rejected and reverted.
C4_Witness ==
    /\ params.strategy = "hc"
    /\ hist.exit = "exhausted"
    /\ returned_cost < hist.initial_cost
    /\ hist.outcome = "reverted"
    /\ new_cost = hist.prev_cost

\* C5: the shutdown flag is polled once per iteration, at its start; no move
\* is chosen at a poll that sees the flag set; when the loop is cancelled the
\* last trial is decided (accepted or reverted); and at most one move
\* completes after the close was requested.
C5_Cancellation ==
    /\ hist.polls = IF pc \in {"decide", "yield"} \/ hist.exit \in {"cancelled", "raised"}
                    THEN i + 1 ELSE i
    /\ hist.chosen_while_shutting = 0
    /\ hist.completed_after_close <= 1
    /\ hist.exit = "cancelled" =>
          /\ hist.outcome \in {"accepted", "reverted"}
          /\ pc = "done"
          /\ i < params.iterations
          /\ hist.outcome = "accepted" => CurrentLayout = hist.applied

\* A run cancelled before its last iteration.
C5_Witness ==
    /\ hist.exit = "cancelled"
    /\ i < params.iterations
    /\ hist.polls = i + 1
    /\ hist.outcome = "accepted"
    /\ CurrentLayout = hist.applied

C7_LockedBlock ==
    \A b \in DOMAIN blocks :
        blocks[b].locked =>
            \A choice \in Choices(CurrentLayout, Move(MOVE_BLOCK, b, "none"), GRID_SIZE) :
                apply_and_evaluate_move(CurrentLayout, Move(MOVE_BLOCK, b, "none"), choice)
                    = Result(FALSE, FALSE, CurrentLayout, NoClosure)

\* C7: an invalid MOVE_BLOCK trial (the proposed rectangle overlaps, or the
\* block is locked) leaves the layout unchanged, evaluates no cost, does not
\* consult the strategy, keeps current_cost, and the loop goes on to the
\* next iteration.
C7_InvalidMove ==
    /\ C7_LockedBlock
    /\ hist.outcome = "invalid" =>
        /\ hist.move.type = MOVE_BLOCK
        /\ CurrentLayout = hist.before
        /\ hist.applied = hist.before
        /\ ~hist.evaluated
        /\ ~hist.consulted
        /\ current_cost = hist.prev_cost
        /\ hist.polls = i
        /\ pc = "loop" \/ hist.exit = "exhausted"

\* An invalid trial, beside a locked block, in an iteration that is not the
\* last.
C7_Witness ==
    /\ hist.outcome = "invalid"
    /\ \E b \in DOMAIN blocks : blocks[b].locked
    /\ pc = "loop"
    /\ i < params.iterations

\* The layout L has a legal move: an unlocked block, or a block with two or
\* more pins of one direction none of them locked, or two or more diagram
\* pins of one class none of them locked.
LegalMoveExists(L) ==
    \/ \E b \in DOMAIN L.blocks : ~L.blocks[b].locked
    \/ \E b \in DOMAIN L.blocks, t \in {INPUT, OUTPUT} :
          /\ Cardinality({p \in DOMAIN L.pin_index : p.owner = b /\ p.type = t}) > 1
          /\ \A p \in DOMAIN L.pin_index :
                (p.owner = b /\ p.type = t) =>
                    ~\E w \in L.wires : w.is_locked /\ p \in {w.start_pin, w.end_pin}
    \/ \E t \in {INPUT, OUTPUT} :
          /\ Cardinality({p \in DOMAIN L.dpins : p.type = t}) > 1
          /\ \A p \in DOMAIN L.dpins :
                p.type = t =>
                    ~\E w \in L.wires : w.is_locked /\ p \in {w.start_pin, w.end_pin}

\* C8: an optimize call on a layout without blocks ends with the 'no blocks'
\* message, one on a layout with blocks but no legal move with the 'no
\* moves' message; the optimizer function is not called and the layout is
\* unchanged.
C8_NothingToOptimize ==
    pc = "done" =>
        /\ DOMAIN hist.before.blocks = {} =>
              /\ hist.exit = "no_blocks"
              /\ status_message = "OPTIMIZER_NO_BLOCKS"
        /\ (DOMAIN hist.before.blocks # {} /\ ~LegalMoveExists(hist.before)) =>
              /\ hist.exit = "no_moves"
              /\ status_message = "OPTIMIZER_NO_MOVES"
        /\ hist.exit \in {"no_blocks", "no_moves"} =>
              /\ ~hist.invoked
              /\ CurrentLayout = hist.before
              /\ possible_moves = {}

\* The call on a single locked block without pins has returned.
C8_Witness ==
    /\ pc = "done"
    /\ hist.exit = "no_moves"
    /\ DOMAIN blocks = {"b3"}
    /\ blocks["b3"].locked
    /\ DOMAIN dpins = {}

\* C9: when optimize_placement returns, on every exit path, the busy flag is
\* false, the progress bar hidden and the view enabled; an exception of the
\* optimizer function is reported as 'optimization failed' and the call
\* returns.
C9_ExitPaths ==
    /\ pc \in {"loop", "decide", "yield"} =>
          optimizer_is_running /\ ~view_enabled /\ progress_visible
    /\ pc = "done" =>
          /\ ~optimizer_is_running
          /\ ~progress_visible
          /\ view_enabled
          /\ hist.exit \in {"exhausted", "cancelled", "no_blocks", "no_moves", "raised"}
          /\ hist.exit = "raised" => status_message = "OPTIMIZATION_FAILED"
          /\ hist.exit = "cancelled" => is_shutting_down /\ window_closed

\* The call has returned after the optimizer function raised.
C9_Witness ==
    /\ pc = "done"
    /\ hist.exit = "raised"
    /\ status_message = "OPTIMIZATION_FAILED"
    /\ hist.invoked

\* C10: for an occupied region smaller than the maximum search radius the
\* item placed at the position find_safe_placement returns overlaps no Block
\* and no DiagramPin.
C10_SafePlacement ==
    (fsp.pc = "done" /\ RegionSmall(fsp.rects)) =>
        ~is_rect_overlapping(fsp.rects, FspPlacedRect)

WireEnds(L, w) ==
    [s |-> scenePos(L.blocks, L.pin_index, L.dpins, w.start_pin),
     e |-> scenePos(L.blocks, L.pin_index, L.dpins, w.end_pin)]

\* The wires w1, w2 have a pin in common.
SharePin(w1, w2) ==
    \/ w1.start_pin \in {w2.start_pin, w2.end_pin}
    \/ w1.end_pin \in {w2.start_pin, w2.end_pin}

\* The ordered pairs of distinct wires of L whose paths intersect; every
\* unordered pair is there twice.
IntersectingWires(L) ==
    {ww \in L.wires \X L.wires :
        /\ ww[1] # ww[2]
        /\ PathsIntersect(WireEnds(L, ww[1]).s, WireEnds(L, ww[1]).e,
                          WireEnds(L, ww[2]).s, WireEnds(L, ww[2]).e)}

\* The (wire, block) pairs of L where the block is at neither end of the
\* wire and the wire's path intersects the block's rectangle.
WireBlockHits(L) ==
    {wb \in L.wires \X DOMAIN L.blocks :
        /\ wb[1].start_pin.owner # wb[2]
        /\ wb[1].end_pin.owner # wb[2]
        /\ PathIntersectsRect(WireEnds(L, wb[1]).s, WireEnds(L, wb[1]).e,
                              BlockBoundingRect(L.blocks, wb[2]))}

FrozenTemperatures == {OPTIMIZER_SA_MIN_TEMPERATURE - 1, -OPTIMIZER_SA_MIN_TEMPERATURE}

\* C13: at a temperature below 1e-9 the annealing strategy accepts exactly
\* when hill-climbing does, for the costs of the run and their neighbours
\* and whatever the random draw; and a run of simulated annealing started at
\* temperature 0 decides every trial as hill-climbing would.
C13_FrozenAnnealing ==
    /\ \A cur, new \in {current_cost, new_cost, hist.prev_cost, new_cost + 1, 0} :
          \A temp \in FrozenTemperatures, u \in BOOLEAN :
              simulated_annealing_strategy(cur, new, temp, u) = hill_climbing_strategy(cur, new)
    /\ (params.strategy = "sa" /\ params.initial_temp \in FrozenTemperatures) =>
          /\ temperature \in FrozenTemperatures \/ ~hist.invoked
          /\ hist.outcome \in {"accepted", "reverted"} =>
                (hist.outcome = "accepted" <=> hill_climbing_strategy(hist.prev_cost, new_cost))

\* A run of simulated annealing started at temperature 0 has rejected and
\* reverted a trial of equal cost, after accepting an improvement.
C13_Witness ==
    /\ params.strategy = "sa"
    /\ params.initial_temp = 0
    /\ hist.outcome = "reverted"
    /\ new_cost = hist.prev_cost
    /\ current_cost < hist.initial_cost

\* C14: at all times, also while a provisional wire is dragged from a pin,
\* every Input-typed pin of the scene (a block input pin or a
\* DiagramOutputPin) lists at most one wire.
C14_InputPinSingleWire ==
    \A p \in ScenePins : p.type = INPUT => Cardinality(ed.pin_wires[p]) <= 1

\* C15: every wire of the layout, after any create_wire calls and completed
\* wire drags started from an output or an input pin, runs from an
\* Output-typed pin to an Input-typed pin, and its two pins are distinct.
C15_WireDirection ==
    \A w \in wires :
        /\ w.start_pin.type = OUTPUT
        /\ w.end_pin.type = INPUT
        /\ w.start_pin # w.end_pin

\* A drag has been completed on a valid target and has left its wire, from
\* the output pin of the two to the input pin.
C15_Witness ==
    /\ ed.op = "wire_drag"
    /\ ed.ok
    /\ \E w \in wires : w \notin hist.before.wires

\* C16: after any create, rename and delete operations no two Blocks of the
\* layout share a name, no two DiagramInputPins, no two DiagramOutputPins,
\* and no two pins of one block, input or output.
C16_UniqueNames ==
    /\ \A a \in DOMAIN blocks, b \in DOMAIN blocks :
          a # b => ed.block_name[a] # ed.block_name[b]
    /\ \A p \in DOMAIN dpins, q \in DOMAIN dpins :
          p # q /\ p.type = q.type => ed.pin_name[p] # ed.pin_name[q]
    /\ \A p \in DOMAIN pin_index, q \in DOMAIN pin_index :
          p # q /\ p.owner = q.owner => p.name # q.name

\* One of two blocks has been renamed.
C16_Witness ==
    /\ ed.op = "rename_block"
    /\ ed.ok
    /\ Cardinality(DOMAIN blocks) > 1

\* C17: a creation that fails leaves the model as it was.  create_block,
\* create_diagram_input and create_diagram_output with a name an item of the
\* kind has return no item and add nothing to the layout; create_wire with a
\* missing pin, a source that is not an Output, a destination that is not an
\* Input or a destination that is connected returns no wire, adds none and
\* leaves the wire list of every pin as it was.
C17_FailedCreation ==
    [][(/\ ed'.op \in {"create_block", "create_diagram_input", "create_diagram_output",
                       "create_wire"}
        /\ ~ed'.ok)
       => /\ blocks' = blocks
          /\ pin_index' = pin_index
          /\ dpins' = dpins
          /\ wires' = wires
          /\ ed'.pin_wires = ed.pin_wires
          /\ ed'.block_name = ed.block_name
          /\ ed'.pin_name = ed.pin_name]_vars

\* create_wire has been refused a destination that is connected, after a
\* creation that took place.
C17_Witness ==
    /\ ed.op = "create_wire"
    /\ ~ed.ok
    /\ ed.why = "input_full"
    /\ wires # {}

\* C18: after every operation on a block, the addition of a pin,
\* realign_pins and every call of set_block_pin_order whatever list it is
\* given and whatever it returns, the indices of the input pins of the block
\* are exactly 0 .. n_in - 1 and those of its output pins exactly
\* 0 .. n_out - 1, none repeated.
C18_DenseIndices ==
    \A b \in DOMAIN blocks, pin_type \in {INPUT, OUTPUT} :
        LET pins == {p \in DOMAIN pin_index : p.owner = b /\ p.type = pin_type}
        IN  {pin_index[p] : p \in pins} = 0 .. Cardinality(pins) - 1

\* C19: in every reachable state the position of every Block and of every
\* DiagramPin is an integer multiple of GRID_SIZE on both axes: after
\* creation from a position given, after the placement by
\* find_safe_placement (its last resort included), after move_block, after
\* every move the optimizer applies or reverts, after set_diagram_pin_order
\* and after the realignment of the diagram pins.
C19_OnGrid ==
    /\ \A b \in DOMAIN blocks :
        blocks[b].x % GRID_SIZE = 0 /\ blocks[b].y % GRID_SIZE = 0
    /\ \A p \in DOMAIN dpins :
        dpins[p].x % GRID_SIZE = 0 /\ dpins[p].y % GRID_SIZE = 0

\* create_block in the crowded scene took the last resort of
\* find_safe_placement: the block created lies on a block of the row.
C19_Witness ==
    /\ ed.op = "create_block"
    /\ ed.ok
    /\ \E b \in DOMAIN blocks \cap EditBlocks, r \in DOMAIN blocks \cap Range(RowNames) :
        Intersects(BlockRect(blocks, b), BlockRect(blocks, r))

\* C20: after any sequence of wire creations, remove_wire calls and
\* delete_selected_items calls the wires and the pins refer to each other
\* consistently: every wire of the layout has both of its pins, and the
\* blocks that own them, in the layout and is in the wire list of both, and
\* no pin of the layout lists a wire that was removed (the provisional wire
\* of a drag in progress apart).
C20_WiresConsistent ==
    /\ \A w \in wires :
        \A p \in {w.start_pin, w.end_pin} :
            /\ p \in ScenePins
            /\ p.owner = "diagram" \/ p.owner \in DOMAIN blocks
            /\ w \in ed.pin_wires[p]
    /\ \A p \in ScenePins :
        ed.pin_wires[p] \ (IF ed.temp_wire THEN {TempWire(ed.start_pin_for_wire)} ELSE {})
            \subseteq wires

\* C21: while an optimization run is in progress, the moments when
\* QApplication.processEvents runs the host's event loop included, the
\* layout changes only where the loop applies a move or reverts it,
\* optimize_placement is not entered again, and a move is chosen only when
\* the move before it has been scored and then kept or reverted.
C21_SingleWriter ==
    [][/\ (optimizer_is_running /\ CurrentLayout' # CurrentLayout)
            => pc \in {"loop", "decide"}
       /\ (optimizer_is_running /\ ed' # ed) => ed'.op # "optimize_placement"
       /\ (pc = "loop" /\ hist'.polls # hist.polls /\ pc' # "done")
            => hist.outcome # "pending"
       /\ pc' = "decide" => hist'.evaluated]_vars

\* The host's event loop runs inside a run whose last move was reverted,
\* with wires in the scene and an edit of the user to come.
C21_Witness ==
    /\ pc = "yield"
    /\ optimizer_is_running
    /\ hist.outcome = "reverted"
    /\ wires # {}
    /\ ed.edits_left > 0

C23_CostOfLayout ==
    /\ (hist.invoked /\ pc \in {"loop", "yield"}) => current_cost = CostOf(CurrentLayout)
    /\ (hist.invoked /\ pc = "done" /\ hist.exit \in {"exhausted", "cancelled"}) =>
            /\ current_cost = CostOf(CurrentLayout)
            /\ returned_cost = CostOf(CurrentLayout)

\* C24: after a successful set_diagram_pin_order(pin_type, names), names
\* being a permutation of the names of the two or more diagram pins of that
\* type, those pins stand from top to bottom in the order of names.
C24_OrderAsGiven ==
    (/\ ed.op = "set_diagram_pin_order"
     /\ ed.ok
     /\ Len(ed.args.names) >= 2
     /\ Cardinality(Range(ed.args.names)) = Len(ed.args.names))
    => \A k \in 1..(Len(ed.args.names) - 1) :
        \A p \in PinsNamed(ed.args.pin_type, ed.args.names[k]),
           q \in PinsNamed(ed.args.pin_type, ed.args.names[k + 1]) :
            dpins[p].y < dpins[q].y

\* The step of the square spiral right, down, left twice, up twice, right
\* three times, ... that enters the cell (a, b), in grid steps and with y
\* growing downwards.
SpiralStepInto(a, b) ==
    IF b <= 0 /\ b + 1 <= a /\ a <= 1 - b THEN Pt(1, 0)
    ELSE IF a >= 1 /\ 2 - a <= b /\ b <= a THEN Pt(0, 1)
    ELSE IF b >= 1 /\ -b <= a /\ a <= b - 1 THEN Pt(-1, 0)
    ELSE Pt(0, -1)

\* C25: when the snapped hint cell is occupied, find_safe_placement tests
\* the cells around it in the order of the square spiral, in steps of one
\* grid unit: every cell the search has come to was entered by the step of
\* the spiral into that cell.
C25_SquareSpiral ==
    (fsp.pc \in {"loop", "done"} /\ (fsp.x # 0 \/ fsp.y # 0)) =>
        /\ fsp.x % GRID_SIZE = 0
        /\ fsp.y % GRID_SIZE = 0
        /\ Pt(fsp.dx, fsp.dy)
            = Pt(GRID_SIZE * SpiralStepInto(fsp.x \div GRID_SIZE, fsp.y \div GRID_SIZE).x,
                 GRID_SIZE * SpiralStepInto(fsp.x \div GRID_SIZE, fsp.y \div GRID_SIZE).y)

\* C26: in a run that is not cancelled, at the end of every iteration whose
\* number is a multiple of the reporting interval the progress has been
\* reported and the host's events have been processed in that iteration,
\* whether its move was kept, reverted or invalid; the events are processed
\* in no other iteration.
C26_ReportingInterval ==
    /\ (/\ hist.invoked
        /\ pc = "loop"
        /\ ~is_shutting_down
        /\ params.reporting_interval > 0
        /\ i >= 1
        /\ i % params.reporting_interval = 0)
       => (hist.yielded_at = i /\ progress_value = i)
    /\ (pc = "yield" /\ params.reporting_interval > 0)
       => (i + 1) % params.reporting_interval = 0
    /\ params.reporting_interval > 0 => hist.yielded_at % params.reporting_interval = 0

\* A wire of the scene at the pin p is locked.
HasLockedWire(p) == \E w \in wires : w.is_locked /\ (w.start_pin = p \/ w.end_pin = p)

\* The pins of the block b on the side t.
PinsOn(b, t) == {p \in DOMAIN pin_index : p.owner = b /\ p.type = t}

\* optimize_placement has built the list of moves and no move was tried yet.
MovesBuilt == hist.invoked /\ pc = "loop" /\ i = 0 /\ hist.polls = 0

NoBlockOverlaps(L) ==
    \A b \in DOMAIN L.blocks :
        ~is_rect_overlapping(SceneRects(L.blocks, L.dpins, b), BlockRect(L.blocks, b))

\* An iteration boundary of a run: the head of the loop, the yield to the
\* host's events that ends an iteration, and the end of the run.
IterationBoundary == hist.invoked /\ pc \in {"loop", "yield", "done"}

\* C28: when no block's rectangle overlapped another Block or a DiagramPin
\* before a trial, none does at the iteration boundary after it, whatever the
\* move was and whether it was kept, reverted or signalled invalid; so a run
\* started without overlaps has none at any iteration boundary.
C28_NoOverlap ==
    (IterationBoundary /\ NoBlockOverlaps(hist.before)) => NoBlockOverlaps(CurrentLayout)

\* A block was moved and kept where no block overlapped before.
C28_Witness ==
    /\ IterationBoundary
    /\ NoBlockOverlaps(hist.before)
    /\ hist.move.type = MOVE_BLOCK
    /\ hist.outcome = "accepted"
    /\ blocks # hist.before.blocks

RECURSIVE Power(_, _)
Power(b, n) == IF n = 0 THEN 1 ELSE b * Power(b, n - 1)

C29_WitnessCancelled ==
    /\ pc = "done"
    /\ params.strategy = "sa"
    /\ hist.exit = "cancelled"
    /\ hist.valid > 0
    /\ temperature > 0

\* The shutdown flag is raised: the close is refused when the optimizer is
\* running and accepted when it is not.
CloseRequested ==
    (~is_shutting_down /\ is_shutting_down') =>
        /\ window_closed' = ~optimizer_is_running
        /\ optimizer_is_running' = optimizer_is_running

\* With the shutdown flag raised the run makes no further trial: it goes to
\* the head of the loop and leaves it.
StopsAtBoundary ==
    (is_shutting_down /\ optimizer_is_running) =>
        /\ layout' = layout
        /\ pc' \in {"yield", "loop", "done"}
        /\ i' <= i + 1

\* optimize_placement resets its state: with the shutdown flag raised the
\* close is triggered again and accepted.
ClosedAfterReset ==
    (optimizer_is_running /\ ~optimizer_is_running' /\ is_shutting_down) => window_closed'

\* C30: a close requested while the optimizer is running is refused and
\* raises the shutdown flag; the optimizer makes no further trial and stops
\* at the head of the loop; when optimize_placement resets its state the
\* close is accepted, so the window is eventually closed, and it is never
\* closed while optimizer_is_running is true.  A close requested when no
\* optimization is running is accepted at once.
C30_GracefulClose ==
    /\ [](window_closed => ~optimizer_is_running)
    /\ [][CloseRequested /\ StopsAtBoundary /\ ClosedAfterReset]_vars
    /\ (is_shutting_down /\ optimizer_is_running) ~> window_closed

\* The window closed after a close was refused during a run and the run was
\* cancelled at the head of the loop.
C30_Witness ==
    /\ window_closed
    /\ ~optimizer_is_running
    /\ status_message = "FINISHING"
    /\ hist.exit = "cancelled"
    /\ i < params.iterations

====
